---- MODULE Spec2Model ----
(***************************************************************************)
(* Metrics-and-alerting engine of the collections dashboard backend:       *)
(*   alertService (evaluateAlerts, cooldowns), alertsRepository,           *)
(*   dataStore / ingestionService / analyticsService (ingest, refresh),    *)
(*   analyticsRepository (upsertMetrics, deleteOlderThan), cleanupJob.     *)
(*                                                                         *)
(* Time is in milliseconds, as Date.now() returns it.  A missing value     *)
(* (undefined or null) is the empty tuple, a number v is the tuple <<v>>.  *)
(* Strings that the code concatenates (collection ids, cooldown keys) are  *)
(* sequences of tokens.                                                    *)
(***************************************************************************)
EXTENDS Integers, Sequences, FiniteSets, TLC

VARIABLES
    now,              \* the wall clock, Date.now()
    ticks,            \* how many times the clock has advanced
    alertCooldowns,   \* alertService: Map key -> lastTriggered
    alerts,           \* alertsRepository: the stored alerts, in insertion order
    alertId,          \* alertsRepository: the id counter
    evalProc,         \* per evaluateAlerts call: its position, argument, locals and result
    evalCount,        \* number of evaluateAlerts calls started
    createCalls,      \* the alerts alertsRepository.create was called with
    notifyCalls,      \* the alerts notifyAlert was called with
    notifyFailed,     \* the alerts whose notifiers rejected
    channels,         \* the configured notifiers (WEBHOOK_URL, EMAIL_ENABLED and EMAIL_TO)
    delivery,         \* per caller: the notifiers of the alert being delivered
    sendCount,        \* number of direct webhookNotifier.send calls
    dataStore,        \* dataStore: marketSnapshots, listingEvents, purchaseEvents
    affectedCollections, \* ingestionService: the Set of dirty collections, in insertion order
    analyticsMetrics, \* analyticsRepository: the stored metrics rows
    metricsId,        \* analyticsRepository: the id counter
    refreshProc,      \* per refreshAffectedMetrics call: its position and locals
    ingestCount,      \* number of ingest calls
    refreshCount,     \* number of refreshAffectedMetrics calls started
    cleanupProc,      \* the runCleanupJob call: its position and locals
    cleanupCount,     \* number of runCleanupJob calls started
    cleanupSchedule,  \* scheduleCleanup: its timer, its stopped flag, the run of its callback
    collections,      \* collectionRepository: the collection rows, in insertion order
    batchProc,        \* the ingestCollections call: its position, locals and result
    batchCount,       \* number of direct repository calls and ingestCollections calls
    hourlyJob         \* the runHourlyRefreshJob call: its position and its result

alertVars == <<alertCooldowns, alerts, alertId, evalProc, evalCount,
               createCalls, notifyCalls, notifyFailed, channels>>
clockVars == <<now, ticks>>
deliveryVars == <<delivery, sendCount>>
pipelineVars == <<dataStore, affectedCollections, analyticsMetrics, metricsId,
                  refreshProc, ingestCount, refreshCount>>
cleanupVars == <<cleanupProc, cleanupCount, cleanupSchedule>>
batchVars == <<collections, batchProc, batchCount, hourlyJob>>
vars == <<now, ticks, alertCooldowns, alerts, alertId, evalProc, evalCount,
          createCalls, notifyCalls, notifyFailed, channels, delivery, sendCount,
          dataStore, affectedCollections, analyticsMetrics, metricsId,
          refreshProc, ingestCount, refreshCount, cleanupProc, cleanupCount,
          cleanupSchedule,
          collections, batchProc, batchCount, hourlyJob>>

----------------------------------------------------------------------------
(* Bounds of the model *)

StartTime == 300000000
MaxTicks == 2
MaxEvals == 2
MaxIngests == 2
MaxRefreshes == 2
MaxCleanups == 1
MaxSweepRefreshes == 1
MaxSends == 3
MaxBatches == 1
MaxHourlyRuns == 2
MaxAlertRows == 1
MaxCollectionRows == 1

----------------------------------------------------------------------------
(* Values *)

Null == <<>>
Num(v) == <<v>>
IsMissing(x) == x = Null
Val(x) == x[1]
Abs(v) == IF v < 0 THEN -v ELSE v

ONE_MINUTE_MS == 60 * 1000

\* collection ids, as token sequences; the second one contains the key separator
CollectionIds == { <<"a">>, <<"a", ":", "price_drop">> }

AlertTypes == { "price_drop", "volume_spike", "listing_depletion" }

----------------------------------------------------------------------------
(* alertService *)

DEFAULT_THRESHOLDS == [priceDrop |-> 10, volumeSpike |-> 50, listingDepletion |-> 30]

COOLDOWN_WINDOW == 60 * 60 * 1000

\* mutant: the key leaves out the alert type
getCooldownKey_perCollection(collectionId, alertType) == collectionId \o <<":">>

getCooldownKey(collectionId, alertType) == collectionId \o <<":", alertType>>

\* mutant: the comparison is inverted
shouldThrottle_inverted(cooldowns, collectionId, alertType, clock) ==
    LET key == getCooldownKey(collectionId, alertType)
    IN  IF key \notin DOMAIN cooldowns
        THEN FALSE
        ELSE IF cooldowns[key] = 0
             THEN FALSE
             ELSE clock - cooldowns[key] > COOLDOWN_WINDOW

\* mutant: an elapsed time of exactly the window still throttles
shouldThrottle_inclusive(cooldowns, collectionId, alertType, clock) ==
    LET key == getCooldownKey(collectionId, alertType)
    IN  IF key \notin DOMAIN cooldowns
        THEN FALSE
        ELSE IF cooldowns[key] = 0
             THEN FALSE
             ELSE clock - cooldowns[key] <= COOLDOWN_WINDOW

shouldThrottle(cooldowns, collectionId, alertType, clock) ==
    LET key == getCooldownKey(collectionId, alertType)
    IN  IF key \notin DOMAIN cooldowns
        THEN FALSE
        ELSE IF cooldowns[key] = 0
             THEN FALSE
             ELSE clock - cooldowns[key] < COOLDOWN_WINDOW

\* mutant: the trigger is not recorded
recordTrigger_dropped(cooldowns, collectionId, alertType, clock) == cooldowns

recordTrigger(cooldowns, collectionId, alertType, clock) ==
    LET key == getCooldownKey(collectionId, alertType)
    IN  [k \in DOMAIN cooldowns \cup {key} |-> IF k = key THEN clock ELSE cooldowns[k]]

\* Number.prototype.toFixed(2) of num/den, as a count of hundredths (round half up)
toFixed2(num, den) == (2 * 100 * num + den) \div (2 * den)

priceDropBreach(analytics) ==
    /\ ~IsMissing(analytics.priceChange24h)
    /\ Val(analytics.priceChange24h) < -DEFAULT_THRESHOLDS.priceDrop

volumeSpikeBreach(analytics) ==
    /\ ~IsMissing(analytics.volumeChange24h)
    /\ Val(analytics.volumeChange24h) > DEFAULT_THRESHOLDS.volumeSpike

\* mutant: a depletion of exactly the threshold fires
listingDepletionBreach_inclusive(analytics) ==
    /\ ~IsMissing(analytics.listingCount)
    /\ ~IsMissing(analytics.previousListingCount)
    /\ Val(analytics.previousListingCount) > 0
    /\ (Val(analytics.previousListingCount) - Val(analytics.listingCount)) * 100
         >= DEFAULT_THRESHOLDS.listingDepletion * Val(analytics.previousListingCount)

\* ((previous - current) / previous) * 100 > threshold, for previous > 0
listingDepletionBreach(analytics) ==
    /\ ~IsMissing(analytics.listingCount)
    /\ ~IsMissing(analytics.previousListingCount)
    /\ Val(analytics.previousListingCount) > 0
    /\ (Val(analytics.previousListingCount) - Val(analytics.listingCount)) * 100
         > DEFAULT_THRESHOLDS.listingDepletion * Val(analytics.previousListingCount)

Breach(analytics, alertType) ==
    CASE alertType = "price_drop" -> priceDropBreach(analytics)
      [] alertType = "volume_spike" -> volumeSpikeBreach(analytics)
      [] alertType = "listing_depletion" -> listingDepletionBreach(analytics)

Severity(alertType) ==
    CASE alertType = "price_drop" -> "warning"
      [] alertType = "volume_spike" -> "info"
      [] alertType = "listing_depletion" -> "critical"

Message(analytics, alertType) ==
    CASE alertType = "price_drop" ->
           [text |-> "Price dropped", hundredths |-> toFixed2(Abs(Val(analytics.priceChange24h)), 1)]
      [] alertType = "volume_spike" ->
           [text |-> "Volume spiked", hundredths |-> toFixed2(Val(analytics.volumeChange24h), 1)]
      [] alertType = "listing_depletion" ->
           [text |-> "Listings depleted by",
            hundredths |-> toFixed2((Val(analytics.previousListingCount) - Val(analytics.listingCount)) * 100,
                                    Val(analytics.previousListingCount))]

\* One rule of evaluateAlerts: the threshold test, the cooldown check, the new
\* alert and the cooldown record.  st carries the cooldown map, the clock and
\* the alerts triggered so far; the clock may advance by drift between the
\* reading of triggeredAt and the Date.now() of recordTrigger.
\* mutant: a throttled breach records the trigger as well
evaluateRule_extending(st, analytics, alertType, drift) ==
    IF Breach(analytics, alertType)
    THEN IF ~shouldThrottle(st.cooldowns, analytics.collectionId, alertType, st.clock)
         THEN [cooldowns |-> recordTrigger(st.cooldowns, analytics.collectionId, alertType,
                                           st.clock + drift),
               clock |-> st.clock + drift,
               triggered |-> Append(st.triggered,
                                    [collectionId |-> analytics.collectionId,
                                     type |-> alertType,
                                     severity |-> Severity(alertType),
                                     message |-> Message(analytics, alertType),
                                     triggeredAt |-> st.clock])]
         ELSE [st EXCEPT !.cooldowns = recordTrigger(st.cooldowns, analytics.collectionId,
                                                     alertType, st.clock)]
    ELSE st

\* mutant: the record of the trigger is left to a later turn of the call
evaluateRule_recordingLater(st, analytics, alertType, drift) ==
    IF Breach(analytics, alertType)
       /\ ~shouldThrottle(st.cooldowns, analytics.collectionId, alertType, st.clock)
    THEN [cooldowns |-> st.cooldowns,
          clock |-> st.clock + drift,
          triggered |-> Append(st.triggered,
                               [collectionId |-> analytics.collectionId,
                                type |-> alertType,
                                severity |-> Severity(alertType),
                                message |-> Message(analytics, alertType),
                                triggeredAt |-> st.clock])]
    ELSE st

evaluateRule(st, analytics, alertType, drift) ==
    IF Breach(analytics, alertType)
       /\ ~shouldThrottle(st.cooldowns, analytics.collectionId, alertType, st.clock)
    THEN [cooldowns |-> recordTrigger(st.cooldowns, analytics.collectionId, alertType,
                                      st.clock + drift),
          clock |-> st.clock + drift,
          triggered |-> Append(st.triggered,
                               [collectionId |-> analytics.collectionId,
                                type |-> alertType,
                                severity |-> Severity(alertType),
                                message |-> Message(analytics, alertType),
                                triggeredAt |-> st.clock])]
    ELSE st

\* mutant: the rules run without the test of the collection id
evaluateRules_withoutId(cooldowns, clock, analytics, drift) ==
    LET s0 == [cooldowns |-> cooldowns, clock |-> clock, triggered |-> <<>>]
        s1 == evaluateRule(s0, analytics, "price_drop", drift)
        s2 == evaluateRule(s1, analytics, "volume_spike", drift)
    IN  evaluateRule(s2, analytics, "listing_depletion", drift)

\* The synchronous part of evaluateAlerts: the three rules in source order.
evaluateRules(cooldowns, clock, analytics, drift) ==
    LET s0 == [cooldowns |-> cooldowns, clock |-> clock, triggered |-> <<>>]
    IN  IF IsMissing(analytics.collectionId)
        THEN s0
        ELSE LET s1 == evaluateRule(s0, analytics, "price_drop", drift)
                 s2 == evaluateRule(s1, analytics, "volume_spike", drift)
             IN  evaluateRule(s2, analytics, "listing_depletion", drift)

----------------------------------------------------------------------------
(* alertsRepository *)

\* create: the stored row, given the id counter before the call
createdAlert(alertData, counter, clock) ==
    [id |-> counter + 1,
     collectionId |-> alertData.collectionId,
     type |-> alertData.type,
     severity |-> alertData.severity,
     message |-> alertData.message,
     triggeredAt |-> alertData.triggeredAt,
     resolved |-> FALSE,
     createdAt |-> clock]

----------------------------------------------------------------------------
(* webhookNotifier, emailNotifier *)

MAX_RETRIES == 3
INITIAL_BACKOFF_MS == 1000

RECURSIVE pow2(_)
pow2(n) == IF n = 0 THEN 1 ELSE 2 * pow2(n - 1)

\* the notifiers of one alert: the position of the webhook's sendWithRetry,
\* its retries argument, the POST requests issued, the wait before the retry,
\* and whether the email was written
IdleDelivery ==
    [pc |-> "idle", retries |-> 0, attempts |-> 0, backoffMs |-> 0, timerSetAt |-> 0,
     email |-> "none"]

Settled(d) == d.pc \in { "idle", "sent", "failed" }

\* sendWithRetry(url, payload, retries) to `await axios.post(...)`
sendWithRetry(d, retries) ==
    [d EXCEPT !.pc = "posting", !.retries = retries, !.attempts = @ + 1]

\* sendWithRetry after the POST: it resolved, or the catch block waits for the
\* backoff, or logs and rethrows
postSettled_retryingOnceMore(d, ok) ==
    IF ok THEN [d EXCEPT !.pc = "sent"]
    ELSE IF d.retries <= MAX_RETRIES
    THEN [d EXCEPT !.pc = "backoff", !.backoffMs = INITIAL_BACKOFF_MS * pow2(d.retries)]
    ELSE [d EXCEPT !.pc = "failed"]

\* mutant: every wait is the initial backoff
postSettled_constantBackoff(d, ok) ==
    IF ok THEN [d EXCEPT !.pc = "sent"]
    ELSE IF d.retries < MAX_RETRIES
    THEN [d EXCEPT !.pc = "backoff", !.backoffMs = INITIAL_BACKOFF_MS]
    ELSE [d EXCEPT !.pc = "failed"]

postSettled(d, ok) ==
    IF ok THEN [d EXCEPT !.pc = "sent"]
    ELSE IF d.retries < MAX_RETRIES
    THEN [d EXCEPT !.pc = "backoff", !.backoffMs = INITIAL_BACKOFF_MS * pow2(d.retries)]
    ELSE [d EXCEPT !.pc = "failed"]

\* sendWithRetry after the backoff: return sendWithRetry(url, payload, retries + 1)
timerFired(d) == sendWithRetry(d, d.retries + 1)

\* emailNotifier.send: it has no await, the email is written during the call
emailSend(d) == [d EXCEPT !.email = "sent"]

\* notifyAlert to `await Promise.all(notifiers)`: webhookNotifier.send, then
\* emailNotifier.send
notifiersStarted_webhookOnly(chs) ==
    LET w == IF "webhook" \in chs THEN sendWithRetry(IdleDelivery, 0) ELSE IdleDelivery
    IN  IF "email" \in chs /\ w.pc = "idle" THEN emailSend(w) ELSE w

notifiersStarted(chs) ==
    LET w == IF "webhook" \in chs THEN sendWithRetry(IdleDelivery, 0) ELSE IdleDelivery
    IN  IF "email" \in chs THEN emailSend(w) ELSE w

----------------------------------------------------------------------------
(* Dates, objects *)

\* new Date(ms).toISOString(): the ISO string of a time value, millisecond
\* precision
toISOString(ms) == << "iso", ms >>

\* a timestamp that new Date() cannot parse
InvalidDate == << "not a date" >>

\* new Date(timestamp).getTime(): the time value of an ISO string, NaN (Null)
\* for an unparseable one
getTime(timestamp) ==
    IF Len(timestamp) = 2 /\ timestamp[1] = "iso" THEN Num(timestamp[2]) ELSE Null

\* { ...base, ...over }
Spread(base, over) ==
    [k \in DOMAIN base \cup DOMAIN over |-> IF k \in DOMAIN over THEN over[k] ELSE base[k]]

\* the property k of an object, undefined (Null) when it has none
Get(obj, k) == IF k \in DOMAIN obj THEN obj[k] ELSE Null

----------------------------------------------------------------------------
(* alertsRepository: update and markAsResolved *)

\* update: the rows after the call and what it returns, null for an unknown
\* id; index is the position of alerts.find((a) => a.id === alertId), 0 when
\* there is none
update(rows, id, updates, clock) ==
    LET index == IF \E i \in 1..Len(rows) : rows[i].id = id
                 THEN CHOOSE i \in 1..Len(rows) :
                         rows[i].id = id /\ \A j \in 1..(i - 1) : rows[j].id # id
                 ELSE 0
        updated == Spread(Spread(rows[index], updates), [updatedAt |-> clock])
    IN  IF index = 0 THEN [rows |-> rows, result |-> Null]
        ELSE [rows |-> [rows EXCEPT ![index] = updated], result |-> << updated >>]

\* mutant: the alert is marked as not resolved
markAsResolved_unresolving(rows, id, clock) == update(rows, id, [resolved |-> FALSE], clock)

markAsResolved(rows, id, clock) == update(rows, id, [resolved |-> TRUE], clock)

----------------------------------------------------------------------------
(* dataStore: each table is an object collectionId -> array, modelled as the *)
(* sequence of its keys with their arrays, in insertion order               *)

EmptyDataStore == [marketSnapshots |-> <<>>, listingEvents |-> <<>>, purchaseEvents |-> <<>>]

TableNames == { "marketSnapshots", "listingEvents", "purchaseEvents" }

keyIndex(table, collectionId) ==
    IF \E i \in 1..Len(table) : table[i].collectionId = collectionId
    THEN CHOOSE i \in 1..Len(table) : table[i].collectionId = collectionId
    ELSE 0

\* this.table[collectionId] || []
getEntries(table, collectionId) ==
    IF keyIndex(table, collectionId) = 0 THEN <<>>
    ELSE table[keyIndex(table, collectionId)].entries

\* if (!this.table[collectionId]) this.table[collectionId] = []; push(row)
pushEntry(table, collectionId, row) ==
    IF keyIndex(table, collectionId) = 0
    THEN Append(table, [collectionId |-> collectionId, entries |-> <<row>>])
    ELSE [table EXCEPT ![keyIndex(table, collectionId)].entries = Append(@, row)]

\* the row addMarketSnapshot / addPurchaseEvent push
storedRow(collectionId, payload, clock) ==
    Spread([id |-> ToString(clock), collectionId |-> collectionId,
            timestamp |-> toISOString(clock)], payload)

\* the row addListingEvent pushes
storedListingRow(collectionId, payload, clock) ==
    Spread([id |-> ToString(clock), collectionId |-> collectionId,
            timestamp |-> toISOString(clock), type |-> "listing"], payload)

addMarketSnapshot(store, collectionId, snapshot, clock) ==
    [store EXCEPT !.marketSnapshots =
        pushEntry(@, collectionId, storedRow(collectionId, snapshot, clock))]

addListingEvent(store, collectionId, event, clock) ==
    [store EXCEPT !.listingEvents =
        pushEntry(@, collectionId, storedListingRow(collectionId, event, clock))]

addPurchaseEvent(store, collectionId, event, clock) ==
    [store EXCEPT !.purchaseEvents =
        pushEntry(@, collectionId, storedRow(collectionId, event, clock))]

\* all the rows of a table
RECURSIVE allEntries(_)
allEntries(table) ==
    IF table = <<>> THEN <<>> ELSE table[1].entries \o allEntries(Tail(table))

----------------------------------------------------------------------------
(* collectionRepository *)

collectionIndex(rows, collectionId) ==
    IF \E i \in 1..Len(rows) : rows[i].id = collectionId
    THEN CHOOSE i \in 1..Len(rows) : rows[i].id = collectionId
    ELSE 0

\* this.collections[collectionId] = { id: collectionId, ...metadata, updatedAt }
upsertCollection(rows, collectionId, metadata, clock) ==
    LET row == [k \in DOMAIN metadata \cup { "id", "updatedAt" } |->
                   IF k = "updatedAt" THEN toISOString(clock)
                   ELSE IF k \in DOMAIN metadata THEN metadata[k]
                   ELSE collectionId]
        i == collectionIndex(rows, collectionId)
    IN  IF i = 0 THEN Append(rows, row) ELSE [rows EXCEPT ![i] = row]

----------------------------------------------------------------------------
(* ingestionService: affectedCollections is a Set, iterated in insertion order *)

SeqRange(s) == { s[i] : i \in 1..Len(s) }

\* affectedCollections.add(collectionId)
setAdd(set, x) == IF x \in SeqRange(set) THEN set ELSE Append(set, x)

----------------------------------------------------------------------------
(* analyticsService.  A metric value that need not be an integer is kept as *)
(* the fraction << numerator, denominator >> in lowest terms.               *)

\* Object.entries(TIME_WINDOWS)
TIME_WINDOWS ==
    << [window |-> "1h",  windowMs |-> 1 * 60 * 60 * 1000],
       [window |-> "6h",  windowMs |-> 6 * 60 * 60 * 1000],
       [window |-> "24h", windowMs |-> 24 * 60 * 60 * 1000],
       [window |-> "72h", windowMs |-> 72 * 60 * 60 * 1000] >>

WindowNames == { TIME_WINDOWS[i].window : i \in 1..Len(TIME_WINDOWS) }

RECURSIVE gcd(_, _)
gcd(a, b) == IF b = 0 THEN a ELSE gcd(b, a % b)

\* num / den, den # 0
Ratio(num, den) ==
    LET g == gcd(Abs(num), Abs(den))
        s == IF den < 0 THEN -1 ELSE 1
    IN  << (s * num) \div g, (s * den) \div g >>

RECURSIVE sum(_)
sum(s) == IF s = <<>> THEN 0 ELSE s[1] + sum(Tail(s))

RECURSIVE maxOf(_)
maxOf(s) == IF Len(s) = 1 THEN s[1]
            ELSE IF s[1] >= maxOf(Tail(s)) THEN s[1] ELSE maxOf(Tail(s))

\* parseFloat of a number
parseFloat(x) == Val(x)

\* parseFloat(e.quantity || 0)
quantityOf(e) == IF Get(e, "quantity") = Null THEN 0 ELSE parseFloat(Get(e, "quantity"))

typeIs(e, t) == "type" \in DOMAIN e /\ e.type = t

EmptyMetrics ==
    [priceChange |-> Null, averagePrice |-> Null, medianPrice |-> Null,
     tradeVolume |-> 0, buyCount |-> 0, sellCount |-> 0,
     liquidityRatio |-> Null, eventCount |-> 0]

\* mutant: a first price of 0 gives a price change of 0
calculateMetrics_zeroForZero(events) ==
    IF events = <<>> THEN EmptyMetrics
    ELSE
    LET priced == SelectSeq(events, LAMBDA e : Get(e, "price") # Null)
        prices == [i \in 1..Len(priced) |-> parseFloat(priced[i].price)]
        sortedPrices == SortSeq(prices, LAMBDA a, b : a < b)
        mid == Len(prices) \div 2
        tradeVolume == sum([i \in 1..Len(events) |-> quantityOf(events[i])])
    IN  [priceChange |->
            IF prices # <<>> /\ prices[1] # 0
            THEN Ratio((maxOf(prices) - prices[1]) * 100, prices[1])
            ELSE IF prices # <<>> THEN Ratio(0, 1)
            ELSE Null,
         averagePrice |->
            IF prices # <<>> THEN Ratio(sum(prices), Len(prices)) ELSE Null,
         medianPrice |->
            IF prices = <<>> THEN Null
            ELSE IF Len(prices) % 2 # 0 THEN Ratio(sortedPrices[mid + 1], 1)
            ELSE Ratio(sortedPrices[mid] + sortedPrices[mid + 1], 2),
         tradeVolume |-> tradeVolume,
         buyCount |-> Len(SelectSeq(events, LAMBDA e : typeIs(e, "buy"))),
         sellCount |-> Len(SelectSeq(events, LAMBDA e : typeIs(e, "sell"))),
         liquidityRatio |-> Ratio(tradeVolume, Len(events)),
         eventCount |-> Len(events)]

\* mutant: the median is taken from the prices in the order of the events
calculateMetrics_unsorted(events) ==
    IF events = <<>> THEN EmptyMetrics
    ELSE
    LET priced == SelectSeq(events, LAMBDA e : Get(e, "price") # Null)
        prices == [i \in 1..Len(priced) |-> parseFloat(priced[i].price)]
        sortedPrices == prices
        mid == Len(prices) \div 2
        tradeVolume == sum([i \in 1..Len(events) |-> quantityOf(events[i])])
    IN  [priceChange |->
            IF prices # <<>> /\ prices[1] # 0
            THEN Ratio((maxOf(prices) - prices[1]) * 100, prices[1])
            ELSE Null,
         averagePrice |->
            IF prices # <<>> THEN Ratio(sum(prices), Len(prices)) ELSE Null,
         medianPrice |->
            IF prices = <<>> THEN Null
            ELSE IF Len(prices) % 2 # 0 THEN Ratio(sortedPrices[mid + 1], 1)
            ELSE Ratio(sortedPrices[mid] + sortedPrices[mid + 1], 2),
         tradeVolume |-> tradeVolume,
         buyCount |-> Len(SelectSeq(events, LAMBDA e : typeIs(e, "buy"))),
         sellCount |-> Len(SelectSeq(events, LAMBDA e : typeIs(e, "sell"))),
         liquidityRatio |-> Ratio(tradeVolume, Len(events)),
         eventCount |-> Len(events)]

\* mutant: priceChange compares the minimum price with the first price
calculateMetrics_fromMin(events) ==
    IF events = <<>> THEN EmptyMetrics
    ELSE
    LET priced == SelectSeq(events, LAMBDA e : Get(e, "price") # Null)
        prices == [i \in 1..Len(priced) |-> parseFloat(priced[i].price)]
        sortedPrices == SortSeq(prices, LAMBDA a, b : a < b)
        mid == Len(prices) \div 2
        tradeVolume == sum([i \in 1..Len(events) |-> quantityOf(events[i])])
    IN  [priceChange |->
            IF prices # <<>> /\ prices[1] # 0
            THEN Ratio((-maxOf([i \in 1..Len(prices) |-> -prices[i]]) - prices[1]) * 100, prices[1])
            ELSE Null,
         averagePrice |->
            IF prices # <<>> THEN Ratio(sum(prices), Len(prices)) ELSE Null,
         medianPrice |->
            IF prices = <<>> THEN Null
            ELSE IF Len(prices) % 2 # 0 THEN Ratio(sortedPrices[mid + 1], 1)
            ELSE Ratio(sortedPrices[mid] + sortedPrices[mid + 1], 2),
         tradeVolume |-> tradeVolume,
         buyCount |-> Len(SelectSeq(events, LAMBDA e : typeIs(e, "buy"))),
         sellCount |-> Len(SelectSeq(events, LAMBDA e : typeIs(e, "sell"))),
         liquidityRatio |-> Ratio(tradeVolume, Len(events)),
         eventCount |-> Len(events)]

calculateMetrics(events) ==
    IF events = <<>> THEN EmptyMetrics
    ELSE
    LET priced == SelectSeq(events, LAMBDA e : Get(e, "price") # Null)
        prices == [i \in 1..Len(priced) |-> parseFloat(priced[i].price)]
        sortedPrices == SortSeq(prices, LAMBDA a, b : a < b)
        mid == Len(prices) \div 2
        tradeVolume == sum([i \in 1..Len(events) |-> quantityOf(events[i])])
    IN  [priceChange |->
            IF prices # <<>> /\ prices[1] # 0
            THEN Ratio((maxOf(prices) - prices[1]) * 100, prices[1])
            ELSE Null,
         averagePrice |->
            IF prices # <<>> THEN Ratio(sum(prices), Len(prices)) ELSE Null,
         medianPrice |->
            IF prices = <<>> THEN Null
            ELSE IF Len(prices) % 2 # 0 THEN Ratio(sortedPrices[mid + 1], 1)
            ELSE Ratio(sortedPrices[mid] + sortedPrices[mid + 1], 2),
         tradeVolume |-> tradeVolume,
         buyCount |-> Len(SelectSeq(events, LAMBDA e : typeIs(e, "buy"))),
         sellCount |-> Len(SelectSeq(events, LAMBDA e : typeIs(e, "sell"))),
         liquidityRatio |-> Ratio(tradeVolume, Len(events)),
         eventCount |-> Len(events)]

\* mutant: an event at the start of the window is left out
filterEventsByWindow_open(events, windowMs, clock) ==
    SelectSeq(events, LAMBDA event :
        /\ getTime(event.timestamp) # Null
        /\ Val(getTime(event.timestamp)) > clock - windowMs
        /\ Val(getTime(event.timestamp)) <= clock)

filterEventsByWindow(events, windowMs, clock) ==
    SelectSeq(events, LAMBDA event :
        /\ getTime(event.timestamp) # Null
        /\ Val(getTime(event.timestamp)) >= clock - windowMs
        /\ Val(getTime(event.timestamp)) <= clock)

\* mutant: volumeChange24h is the trade volume of all events of the window
windowMetrics_totalVolume(listingEvents, purchaseEvents, w, clock) ==
    LET listingEventsInWindow == filterEventsByWindow(listingEvents, w.windowMs, clock)
        purchaseEventsInWindow == filterEventsByWindow(purchaseEvents, w.windowMs, clock)
        listingMetrics == calculateMetrics(listingEventsInWindow)
        purchaseMetrics == calculateMetrics(purchaseEventsInWindow)
        metrics == calculateMetrics(listingEventsInWindow \o purchaseEventsInWindow)
        nested == Spread(metrics, [listingMetrics |-> listingMetrics,
                                   purchaseMetrics |-> purchaseMetrics])
        with24h == IF w.window = "24h" /\ metrics.priceChange # Null
                   THEN Spread(nested, [priceChange24h |-> metrics.priceChange])
                   ELSE nested
    IN  IF w.window = "24h"
        THEN Spread(with24h, [volumeChange24h |-> metrics.tradeVolume])
        ELSE with24h

\* computeMetricsForCollection: the metrics object of one window
windowMetrics(listingEvents, purchaseEvents, w, clock) ==
    LET listingEventsInWindow == filterEventsByWindow(listingEvents, w.windowMs, clock)
        purchaseEventsInWindow == filterEventsByWindow(purchaseEvents, w.windowMs, clock)
        listingMetrics == calculateMetrics(listingEventsInWindow)
        purchaseMetrics == calculateMetrics(purchaseEventsInWindow)
        metrics == calculateMetrics(listingEventsInWindow \o purchaseEventsInWindow)
        nested == Spread(metrics, [listingMetrics |-> listingMetrics,
                                   purchaseMetrics |-> purchaseMetrics])
        with24h == IF w.window = "24h" /\ metrics.priceChange # Null
                   THEN Spread(nested, [priceChange24h |-> metrics.priceChange])
                   ELSE nested
    IN  IF w.window = "24h"
        THEN Spread(with24h, [volumeChange24h |-> purchaseMetrics.tradeVolume])
        ELSE with24h

----------------------------------------------------------------------------
(* analyticsRepository *)

\* analyticsMetrics.findIndex(...) + 1
findMetricIndex(rows, collectionId, window) ==
    IF \E i \in 1..Len(rows) : rows[i].collectionId = collectionId /\ rows[i].window = window
    THEN CHOOSE i \in 1..Len(rows) :
            /\ rows[i].collectionId = collectionId /\ rows[i].window = window
            /\ \A j \in 1..(i - 1) :
                  ~(rows[j].collectionId = collectionId /\ rows[j].window = window)
    ELSE 0

\* mutant: the event count of the row that exists is added to the new one
upsertedMetric_accumulating(rows, counter, collectionId, window, metricsData, clock) ==
    LET existingIndex == findMetricIndex(rows, collectionId, window)
    IN  Spread([id |-> IF existingIndex > 0 THEN rows[existingIndex].id
                       ELSE ToString(counter + 1),
                collectionId |-> collectionId,
                window |-> window,
                timestamp |-> toISOString(clock)],
               IF existingIndex > 0
               THEN [metricsData EXCEPT !.eventCount = @ + rows[existingIndex].eventCount]
               ELSE metricsData)

\* upsertMetrics: the metric it stores and returns
upsertedMetric(rows, counter, collectionId, window, metricsData, clock) ==
    LET existingIndex == findMetricIndex(rows, collectionId, window)
    IN  Spread([id |-> IF existingIndex > 0 THEN rows[existingIndex].id
                       ELSE ToString(counter + 1),
                collectionId |-> collectionId,
                window |-> window,
                timestamp |-> toISOString(clock)],
               metricsData)

upsertMetrics_appending(rows, counter, collectionId, window, metricsData, clock) ==
    [rows |-> Append(rows, upsertedMetric(rows, counter, collectionId, window, metricsData, clock)),
     counter |-> counter + 1]

\* upsertMetrics: the rows and the id counter after the call
upsertMetrics(rows, counter, collectionId, window, metricsData, clock) ==
    LET existingIndex == findMetricIndex(rows, collectionId, window)
        metric == upsertedMetric(rows, counter, collectionId, window, metricsData, clock)
    IN  IF existingIndex > 0
        THEN [rows |-> [rows EXCEPT ![existingIndex] = metric], counter |-> counter]
        ELSE [rows |-> Append(rows, metric), counter |-> counter + 1]

----------------------------------------------------------------------------
(* Retention: deleteFromCollections, analyticsRepository.deleteOlderThan *)

DEFAULT_BATCH_SIZE == 500

\* mutant: the limit of the caller is ignored
normalizeLimit_ignored(limit) == DEFAULT_BATCH_SIZE

\* normalizeLimit: parseInt(limit, 10), the default when it is not positive
normalizeLimit(limit) ==
    IF limit = Null \/ Val(limit) <= 0 THEN DEFAULT_BATCH_SIZE ELSE Val(limit)

\* a Date
DateOf(ms) == << "date", ms >>

\* resolveCutoffTime of a Date: cutoffDate.getTime()
resolveCutoffTime(cutoffDate) == cutoffDate[2]

isExpired_inclusive(entry, cutoffTime) ==
    /\ getTime(entry.timestamp) # Null
    /\ Val(getTime(entry.timestamp)) <= cutoffTime

\* Number.isFinite(timestamp) && timestamp < cutoffTime
isExpired(entry, cutoffTime) ==
    /\ getTime(entry.timestamp) # Null
    /\ Val(getTime(entry.timestamp)) < cutoffTime

\* the inner loop of deleteFromCollections over one array, with what is left
\* of the batch limit
RECURSIVE sweepEntries(_, _, _)
sweepEntries(entries, cutoffTime, budget) ==
    IF entries = <<>> THEN [retained |-> <<>>, deleted |-> 0]
    ELSE IF budget = 0 THEN [retained |-> entries, deleted |-> 0]
    ELSE IF isExpired(entries[1], cutoffTime)
    THEN LET rest == sweepEntries(Tail(entries), cutoffTime, budget - 1)
         IN  [retained |-> rest.retained, deleted |-> rest.deleted + 1]
    ELSE LET rest == sweepEntries(Tail(entries), cutoffTime, budget)
         IN  [retained |-> << entries[1] >> \o rest.retained, deleted |-> rest.deleted]

\* the outer loop of deleteFromCollections: the table after the batch, the
\* number of rows deleted, and the keys whose array was replaced
RECURSIVE sweepTable(_, _, _)
sweepTable(table, cutoffTime, budget) ==
    IF table = <<>> \/ budget = 0
    THEN [table |-> table, deleted |-> 0, replaced |-> {}]
    ELSE IF table[1].entries = <<>>
    THEN LET rest == sweepTable(Tail(table), cutoffTime, budget)
         IN  [rest EXCEPT !.table = << table[1] >> \o @]
    ELSE LET r == sweepEntries(table[1].entries, cutoffTime, budget)
             rest == sweepTable(Tail(table), cutoffTime, budget - r.deleted)
         IN  [table |-> << [table[1] EXCEPT !.entries = r.retained] >> \o rest.table,
              deleted |-> r.deleted + rest.deleted,
              replaced |-> {table[1].collectionId} \cup rest.replaced]

deleteFromCollections(collectionMap, cutoffDate, limit) ==
    sweepTable(collectionMap, resolveCutoffTime(cutoffDate), normalizeLimit(limit))

\* the loop of deleteOlderThan, from the last row to the first
RECURSIVE spliceOlderThan(_, _, _)
spliceOlderThan(rows, cutoffTime, budget) ==
    IF rows = <<>> \/ budget = 0 THEN [rows |-> rows, deleted |-> 0]
    ELSE IF isExpired(rows[Len(rows)], cutoffTime)
    THEN LET rest == spliceOlderThan(SubSeq(rows, 1, Len(rows) - 1), cutoffTime, budget - 1)
         IN  [rows |-> rest.rows, deleted |-> rest.deleted + 1]
    ELSE LET rest == spliceOlderThan(SubSeq(rows, 1, Len(rows) - 1), cutoffTime, budget)
         IN  [rows |-> Append(rest.rows, rows[Len(rows)]), deleted |-> rest.deleted]

deleteOlderThan(rows, cutoffDate, limit) ==
    spliceOlderThan(rows, resolveCutoffTime(cutoffDate), normalizeLimit(limit))

----------------------------------------------------------------------------
(* cleanupJob *)

MAX_BATCH_ITERATIONS == 1000
ONE_HOUR_MS == 60 * 60 * 1000

\* config/env
dataRetentionHours == 72
cleanupBatchSize == 500

\* normalizePositiveNumber, normalizeBatchSize
normalizePositiveNumber(value, fallback) ==
    IF value = Null \/ Val(value) <= 0 THEN fallback ELSE Val(value)

normalizeBatchSize(value, fallback) ==
    IF value = Null \/ Val(value) <= 0 THEN fallback ELSE Val(value)

getCutoffDate(retentionHours, referenceTimeMs) ==
    DateOf(referenceTimeMs - retentionHours * ONE_HOUR_MS)

\* the tasks of runCleanupJob, in order, with the table each one sweeps
CleanupTasks ==
    << [name |-> "market_snapshots", table |-> "marketSnapshots"],
       [name |-> "listing_events", table |-> "listingEvents"],
       [name |-> "purchase_events", table |-> "purchaseEvents"],
       [name |-> "analytics_metrics", table |-> "analyticsMetrics"] >>

\* mutant: the result names no table
SKIPPED_TABLES_none == << >>

\* the tables a run leaves alone, as its result names them
SKIPPED_TABLES == << "collections", "alert_events" >>

\* options.repositories of a run: the stores of src; stores whose delete
\* functions report a full batch at every call and delete nothing; a dataStore
\* whose deleteListingEventsOlderThan throws at its second call
Repositories == { "store", "full", "listingThrows" }

deleteBatchThrows(repositories, task, iteration) ==
    repositories = "listingThrows" /\ CleanupTasks[task].table = "listingEvents" /\ iteration >= 2

\* the rows of a swept table
TableRows(store, metrics, t) ==
    IF t = "analyticsMetrics" THEN metrics ELSE allEntries(store[t])

\* the rows older than the cutoff
ExpiredRows(rows, cutoffTime) ==
    Cardinality({ k \in 1..Len(rows) :
                    /\ getTime(rows[k].timestamp) # Null
                    /\ Val(getTime(rows[k].timestamp)) < cutoffTime })

\* expiredAtCall is a history field, read by no statement of the job: the
\* number of expired rows of each swept table when the run was called
IdleCleanup ==
    [pc |-> "idle", retentionHours |-> 0, nowMs |-> 0, cutoffDate |-> DateOf(0),
     batchSize |-> 0, task |-> 0, iteration |-> 0, removed |-> 0,
     totalDeleted |-> 0, summary |-> <<>>, repositories |-> "store",
     outcome |-> "none", skipped |-> <<>>, expiredAtCall |-> <<>>]

TEN_MINUTES_MS == 10 * 60 * 1000

\* getDelayUntilNextRun: the time to the next tenth minute of an hour
getDelayUntilNextRun(clock) ==
    LET sinceHour == clock % ONE_HOUR_MS
    IN  IF sinceHour > TEN_MINUTES_MS
        THEN ONE_HOUR_MS - sinceHour + TEN_MINUTES_MS
        ELSE TEN_MINUTES_MS - sinceHour

\* scheduleCleanup not called yet
NoSchedule ==
    [scheduled |-> FALSE, timer |-> FALSE, nextRunAt |-> 0, stopped |-> FALSE,
     running |-> FALSE, retentionHours |-> 0, batchSize |-> 0]

InitCleanup ==
    /\ cleanupProc = IdleCleanup
    /\ cleanupCount = 0
    /\ cleanupSchedule = NoSchedule

----------------------------------------------------------------------------
(* ingest and refreshAffectedMetrics, as the steps between suspension points *)

\* the refreshAffectedMetrics calls that can be in flight together
RefreshProcs == { 1 }

\* the arrays refreshMetrics holds for the collection it is computing: the
\* store's own array (later pushes are seen through it) or an array that is no
\* longer, or never was, the store's
Detached(entries) == [live |-> FALSE, entries |-> entries]

arrayRef(table, collectionId) ==
    IF keyIndex(table, collectionId) = 0 THEN Detached(<<>>)
    ELSE [live |-> TRUE, entries |-> <<>>]

deref(ref, table, collectionId) ==
    IF ref.live THEN getEntries(table, collectionId) ELSE ref.entries

\* what the repository passed to one refresh does: the one in src never
\* rejects; a failing one rejects the upsert of the second window of the
\* first collection
RefreshCollaborators == { "ok", "upsertRejects" }

upsertResolves(collab, ci, wi) == ~(collab = "upsertRejects" /\ ci = 1 /\ wi = 2)

IdleRefresh ==
    [pc |-> "idle", collections |-> <<>>, ci |-> 0, wi |-> 0, rejected |-> FALSE,
     listingEvents |-> Detached(<<>>), purchaseEvents |-> Detached(<<>>),
     collab |-> "ok", collectionsUpdated |-> 0]

\* the payloads of the ingest calls: an event with an id of its own, and one
\* that leaves id and timestamp to the store
EventPayloads ==
    { [id |-> "e1", price |-> Num(100), quantity |-> Num(2), type |-> "buy"],
      [price |-> Num(150)] }

IngestKinds == { "market_snapshot", "listing_event", "purchase_event" }

\* the store write of ingestMarketSnapshot / ingestListingEvent /
\* ingestPurchaseEvent
storeAfterIngest(store, kind, collectionId, payload, clock) ==
    CASE kind = "market_snapshot" -> addMarketSnapshot(store, collectionId, payload, clock)
      [] kind = "listing_event"   -> addListingEvent(store, collectionId, payload, clock)
      [] kind = "purchase_event"  -> addPurchaseEvent(store, collectionId, payload, clock)

\* mutant: the ingest also computes and upserts the 1h metrics of the collection
Ingest_refreshing(kind, collectionId, payload) ==
    /\ ingestCount < MaxIngests
    /\ dataStore' = storeAfterIngest(dataStore, kind, collectionId, payload, now)
    /\ affectedCollections' = setAdd(affectedCollections, collectionId)
    /\ ingestCount' = ingestCount + 1
    /\ LET up == upsertMetrics(analyticsMetrics, metricsId, collectionId,
                               TIME_WINDOWS[1].window,
                               windowMetrics(getEntries(dataStore'.listingEvents, collectionId),
                                             getEntries(dataStore'.purchaseEvents, collectionId),
                                             TIME_WINDOWS[1], now),
                               now)
       IN  /\ analyticsMetrics' = up.rows
           /\ metricsId' = up.counter
    /\ UNCHANGED <<refreshProc, refreshCount>>
    /\ UNCHANGED <<clockVars, alertVars, deliveryVars, cleanupVars, batchVars>>

\* ingestMarketSnapshot / ingestListingEvent / ingestPurchaseEvent
Ingest(kind, collectionId, payload) ==
    /\ ingestCount < MaxIngests
    /\ dataStore' = storeAfterIngest(dataStore, kind, collectionId, payload, now)
    /\ affectedCollections' = setAdd(affectedCollections, collectionId)
    /\ ingestCount' = ingestCount + 1
    /\ UNCHANGED <<analyticsMetrics, metricsId, refreshProc, refreshCount>>
    /\ UNCHANGED <<clockVars, alertVars, deliveryVars, cleanupVars, batchVars>>

\* One iteration of the window loop of computeMetricsForCollection up to its
\* await: filter, calculate, and the call of upsertMetrics, whose body runs at
\* once.
ComputeWindow(p, proc, wi) ==
    LET collectionId == proc.collections[proc.ci]
        metrics == windowMetrics(
                      deref(proc.listingEvents, dataStore.listingEvents, collectionId),
                      deref(proc.purchaseEvents, dataStore.purchaseEvents, collectionId),
                      TIME_WINDOWS[wi], now)
        up == upsertMetrics(analyticsMetrics, metricsId, collectionId,
                            TIME_WINDOWS[wi].window, metrics, now)
    IN  /\ IF upsertResolves(proc.collab, proc.ci, wi)
           THEN /\ analyticsMetrics' = up.rows
                /\ metricsId' = up.counter
           ELSE UNCHANGED <<analyticsMetrics, metricsId>>
        /\ refreshProc' = [refreshProc EXCEPT ![p] =
               [proc EXCEPT !.pc = "upsert", !.wi = wi,
                            !.rejected = ~upsertResolves(proc.collab, proc.ci, wi)]]

\* One iteration of the collection loop of refreshMetrics up to its await
BeginCollection(p, proc, ci) ==
    ComputeWindow(p,
        [proc EXCEPT !.ci = ci,
                     !.listingEvents = arrayRef(dataStore.listingEvents, proc.collections[ci]),
                     !.purchaseEvents = arrayRef(dataStore.purchaseEvents, proc.collections[ci])],
        1)

\* the body of refreshAffectedMetrics to its first suspension point
RefreshCall(p, collab) ==
    IF affectedCollections = <<>>
    THEN UNCHANGED <<refreshProc, analyticsMetrics, metricsId>>
    ELSE BeginCollection(p, [IdleRefresh EXCEPT !.collections = affectedCollections,
                                                !.collab = collab], 1)

\* refreshAffectedMetrics from its call to its first suspension point
RefreshStart(p, collab) ==
    /\ refreshProc[p].pc = "idle"
    /\ \A q \in RefreshProcs : q < p => refreshProc[q].pc # "idle"
    /\ refreshCount < MaxRefreshes
    /\ refreshCount' = refreshCount + 1
    /\ RefreshCall(p, collab)
    /\ UNCHANGED <<dataStore, affectedCollections, ingestCount>>
    /\ UNCHANGED <<clockVars, alertVars, deliveryVars, cleanupVars, batchVars>>

\* mutant: a collection whose refresh failed is counted as updated
RefreshResume_countingAll(p) ==
    /\ refreshProc[p].pc \in {"upsert", "compute"}
    /\ LET proc == refreshProc[p]
       IN  IF proc.pc = "upsert" /\ ~proc.rejected /\ proc.wi < Len(TIME_WINDOWS)
           THEN ComputeWindow(p, proc, proc.wi + 1)
           ELSE IF proc.pc = "upsert"
           THEN \* computeMetricsForCollection returns its results, or rethrows
                /\ refreshProc' = [refreshProc EXCEPT ![p].pc = "compute"]
                /\ UNCHANGED <<analyticsMetrics, metricsId>>
           ELSE LET counted == [proc EXCEPT !.collectionsUpdated =
                                    @ + 1]
                IN  IF proc.ci < Len(proc.collections)
                    THEN BeginCollection(p, counted, proc.ci + 1)
                    ELSE /\ refreshProc' = [refreshProc EXCEPT ![p] =
                                               [counted EXCEPT !.pc = "refresh"]]
                         /\ UNCHANGED <<analyticsMetrics, metricsId>>
    /\ UNCHANGED <<dataStore, affectedCollections, ingestCount, refreshCount>>
    /\ UNCHANGED <<clockVars, alertVars, deliveryVars, cleanupVars, batchVars>>

\* refreshMetrics and computeMetricsForCollection after an await
RefreshResume(p) ==
    /\ refreshProc[p].pc \in {"upsert", "compute"}
    /\ LET proc == refreshProc[p]
       IN  IF proc.pc = "upsert" /\ ~proc.rejected /\ proc.wi < Len(TIME_WINDOWS)
           THEN ComputeWindow(p, proc, proc.wi + 1)
           ELSE IF proc.pc = "upsert"
           THEN \* computeMetricsForCollection returns its results, or rethrows
                /\ refreshProc' = [refreshProc EXCEPT ![p].pc = "compute"]
                /\ UNCHANGED <<analyticsMetrics, metricsId>>
           ELSE LET counted == [proc EXCEPT !.collectionsUpdated =
                                    IF proc.rejected THEN @ ELSE @ + 1]
                IN  IF proc.ci < Len(proc.collections)
                    THEN BeginCollection(p, counted, proc.ci + 1)
                    ELSE /\ refreshProc' = [refreshProc EXCEPT ![p] =
                                               [counted EXCEPT !.pc = "refresh"]]
                         /\ UNCHANGED <<analyticsMetrics, metricsId>>
    /\ UNCHANGED <<dataStore, affectedCollections, ingestCount, refreshCount>>
    /\ UNCHANGED <<clockVars, alertVars, deliveryVars, cleanupVars, batchVars>>

\* refreshAffectedMetrics after `await refreshMetrics(...)`
RefreshFinish(p) ==
    /\ refreshProc[p].pc = "refresh"
    /\ affectedCollections' = <<>>
    /\ refreshProc' = [refreshProc EXCEPT ![p] = IdleRefresh]
    /\ UNCHANGED <<dataStore, analyticsMetrics, metricsId, ingestCount, refreshCount>>
    /\ UNCHANGED <<clockVars, alertVars, deliveryVars, cleanupVars, batchVars>>

InitStores ==
    /\ dataStore = EmptyDataStore
    /\ affectedCollections = <<>>
    /\ analyticsMetrics = <<>>
    /\ metricsId = 0
    /\ refreshProc = [p \in RefreshProcs |-> IdleRefresh]
    /\ ingestCount = 0
    /\ refreshCount = 0

----------------------------------------------------------------------------
(* ingestCollections, as the steps between its suspension points *)

\* the crawler payloads of a call: a collection with metadata, a snapshot and
\* three listing events of which the second is null; the same collection with
\* one event of each kind; a second collection with a snapshot and a null
\* purchase event; a payload without collectionId
CrawlerPayloads ==
    { [collectionId |-> <<"a">>, metadata |-> [name |-> "A"], snapshot |-> [id |-> "s1"],
       listingEvents |-> << [id |-> "e1"], Null, [id |-> "e2"] >>, purchaseEvents |-> <<>>],
      [collectionId |-> <<"a">>, metadata |-> Null, snapshot |-> Null,
       listingEvents |-> << [id |-> "e1"] >>, purchaseEvents |-> << [id |-> "e2"] >>],
      [collectionId |-> <<"b">>, metadata |-> Null, snapshot |-> [id |-> "s1"],
       listingEvents |-> <<>>, purchaseEvents |-> << Null >>],
      [collectionId |-> Null, metadata |-> Null, snapshot |-> Null,
       listingEvents |-> << [id |-> "e1"] >>, purchaseEvents |-> <<>>] }

\* the calls: no payload, one, or two
CrawlerBatches ==
    { <<>> } \cup { << x >> : x \in CrawlerPayloads }
             \cup { << x, y >> : x \in CrawlerPayloads, y \in CrawlerPayloads }

\* the dataStore under the ingestion service of a call: the one of src, or
\* one whose add* throws for the event with id e2
BatchCollaborators == { "ok", "ingestRejects" }

groupIndex(groups, collectionId) ==
    IF \E i \in 1..Len(groups) : groups[i].collectionId = collectionId
    THEN CHOOSE i \in 1..Len(groups) : groups[i].collectionId = collectionId
    ELSE 0

\* mutant: a payload without collectionId is grouped under its missing id
addPayload_keepingAll(groups, payload) ==
    LET i == groupIndex(groups, payload.collectionId)
        all == IF i # 0 THEN groups
               ELSE Append(groups, [collectionId |-> payload.collectionId,
                                    metadata |-> Null, snapshots |-> <<>>,
                                    listingEvents |-> <<>>, purchaseEvents |-> <<>>])
        j == IF i # 0 THEN i ELSE Len(all)
        g == all[j]
    IN  [all EXCEPT ![j] =
           [collectionId |-> g.collectionId,
            metadata |-> IF payload.metadata # Null THEN payload.metadata ELSE g.metadata,
            snapshots |-> IF payload.snapshot # Null
                          THEN Append(g.snapshots, payload.snapshot) ELSE g.snapshots,
            listingEvents |-> g.listingEvents \o payload.listingEvents,
            purchaseEvents |-> g.purchaseEvents \o payload.purchaseEvents]]

\* one iteration of `for (const payload of crawlerPayloads)`
addPayload(groups, payload) ==
    IF payload.collectionId = Null THEN groups
    ELSE LET i == groupIndex(groups, payload.collectionId)
             all == IF i # 0 THEN groups
                    ELSE Append(groups, [collectionId |-> payload.collectionId,
                                         metadata |-> Null, snapshots |-> <<>>,
                                         listingEvents |-> <<>>, purchaseEvents |-> <<>>])
             j == IF i # 0 THEN i ELSE Len(all)
             g == all[j]
         IN  [all EXCEPT ![j] =
                [collectionId |-> g.collectionId,
                 metadata |-> IF payload.metadata # Null THEN payload.metadata ELSE g.metadata,
                 snapshots |-> IF payload.snapshot # Null
                               THEN Append(g.snapshots, payload.snapshot) ELSE g.snapshots,
                 listingEvents |-> g.listingEvents \o payload.listingEvents,
                 purchaseEvents |-> g.purchaseEvents \o payload.purchaseEvents]]

\* collectionMap, in the insertion order of its keys
RECURSIVE groupPayloads(_, _)
groupPayloads(groups, payloads) ==
    IF payloads = <<>> THEN groups
    ELSE groupPayloads(addPayload(groups, Head(payloads)), Tail(payloads))

\* the awaited calls of one collection, in program order
groupOps(g) ==
    (IF g.metadata # Null THEN << [kind |-> "metadata", record |-> g.metadata] >> ELSE <<>>)
    \o [i \in 1..Len(g.snapshots) |-> [kind |-> "market_snapshot", record |-> g.snapshots[i]]]
    \o [i \in 1..Len(g.listingEvents) |-> [kind |-> "listing_event", record |-> g.listingEvents[i]]]
    \o [i \in 1..Len(g.purchaseEvents) |-> [kind |-> "purchase_event", record |-> g.purchaseEvents[i]]]

EmptyBatchMetrics ==
    [totalCollections |-> 0, totalSnapshots |-> 0, totalListingEvents |-> 0,
     totalPurchaseEvents |-> 0, failures |-> <<>>]

IdleBatch ==
    [pc |-> "idle", payloads |-> <<>>, groups |-> <<>>, gi |-> 0, oi |-> 0, rejected |-> FALSE,
     collab |-> "ok", metrics |-> EmptyBatchMetrics, result |-> Null]

CurrentOp(b) == groupOps(b.groups[b.gi])[b.oi]

\* the store write of the awaited ingest throws
storeWriteThrows(collab, op) ==
    /\ collab = "ingestRejects"
    /\ op.record # Null
    /\ Get(op.record, "id") = "e2"

\* the awaited call rejects: the store write throws, or the service reads the
\* id of a null record for its log line, after the store write
callRejects(collab, op) ==
    /\ op.kind # "metadata"
    /\ (storeWriteThrows(collab, op) \/ op.record = Null)

\* the code between two awaits of the collection loop: a collection whose
\* calls are done is counted and the next one begins; after the last
\* collection comes the refresh
RECURSIVE advance(_)
advance(b) ==
    IF b.gi > Len(b.groups) THEN [b EXCEPT !.pc = "refresh"]
    ELSE IF b.oi > Len(groupOps(b.groups[b.gi]))
    THEN advance([b EXCEPT !.metrics.totalCollections = @ + 1, !.gi = @ + 1, !.oi = 1])
    ELSE [b EXCEPT !.pc = "record"]

\* the awaited call has resolved: its total is counted
resolved(b) ==
    LET kind == CurrentOp(b).kind
    IN  [b EXCEPT !.metrics.totalSnapshots = IF kind = "market_snapshot" THEN @ + 1 ELSE @,
                  !.metrics.totalListingEvents = IF kind = "listing_event" THEN @ + 1 ELSE @,
                  !.metrics.totalPurchaseEvents = IF kind = "purchase_event" THEN @ + 1 ELSE @,
                  !.oi = @ + 1]

FailureType(kind) ==
    CASE kind = "market_snapshot" -> "snapshot"
      [] kind = "listing_event"   -> "listing_event"
      [] kind = "purchase_event"  -> "purchase_event"

\* the awaited call has rejected: the catch block of the record reads the id
\* of the record for its log line; on a null record that throws, and the
\* catch block of the collection records the failure and ends the collection
failed(b) ==
    LET op == CurrentOp(b)
    IN  IF op.record = Null
        THEN [b EXCEPT !.metrics.failures =
                           Append(@, [type |-> "collection",
                                      collectionId |-> b.groups[b.gi].collectionId]),
                       !.gi = @ + 1, !.oi = 1]
        ELSE [b EXCEPT !.metrics.failures =
                           Append(@, [type |-> FailureType(op.kind),
                                      collectionId |-> b.groups[b.gi].collectionId,
                                      id |-> op.record.id]),
                       !.oi = @ + 1]

\* the next awaited call, to its await: upsertCollection or an ingest, whose
\* bodies run at once, or refreshAffectedMetrics
BatchCall(b) ==
    IF b.pc = "refresh"
    THEN /\ RefreshCall(1, "ok")
         /\ batchProc' = [b EXCEPT !.pc = "refreshing"]
         /\ UNCHANGED <<dataStore, affectedCollections, collections>>
    ELSE LET op == CurrentOp(b)
             collectionId == b.groups[b.gi].collectionId
         IN  /\ batchProc' = [b EXCEPT !.rejected = callRejects(b.collab, op)]
             /\ UNCHANGED <<refreshProc, analyticsMetrics, metricsId>>
             /\ IF op.kind = "metadata"
                THEN /\ collections' = upsertCollection(collections, collectionId, op.record, now)
                     /\ UNCHANGED <<dataStore, affectedCollections>>
                ELSE IF storeWriteThrows(b.collab, op)
                THEN UNCHANGED <<dataStore, affectedCollections, collections>>
                ELSE /\ dataStore' = storeAfterIngest(dataStore, op.kind, collectionId,
                                                      op.record, now)
                     /\ affectedCollections' = setAdd(affectedCollections, collectionId)
                     /\ UNCHANGED collections

BatchResult(b) ==
    [success |-> b.metrics.failures = <<>>, metrics |-> b.metrics]

\* the body of ingestCollections from its call to its first suspension point
IngestCollectionsCall(payloads, collab) ==
    /\ batchProc.pc = "idle"
    /\ \A p \in RefreshProcs : refreshProc[p].pc = "idle"
    /\ IF payloads = <<>>
       THEN /\ batchProc' = [IdleBatch EXCEPT !.result = << BatchResult(IdleBatch) >>]
            /\ UNCHANGED <<dataStore, affectedCollections, collections,
                           refreshProc, analyticsMetrics, metricsId>>
       ELSE BatchCall(advance([IdleBatch EXCEPT !.payloads = payloads,
                                                !.groups = groupPayloads(<<>>, payloads),
                                                !.gi = 1, !.oi = 1, !.collab = collab]))
    /\ UNCHANGED <<ingestCount, refreshCount>>
    /\ UNCHANGED <<clockVars, alertVars, deliveryVars, cleanupVars>>

\* ingestCollections(crawlerPayloads), called on its own
BatchStart(payloads, collab) ==
    /\ batchCount < MaxBatches
    /\ batchCount' = batchCount + 1
    /\ IngestCollectionsCall(payloads, collab)
    /\ UNCHANGED hourlyJob

\* ingestCollections after the await of upsertCollection or of an ingest
BatchResume ==
    /\ batchProc.pc = "record"
    /\ BatchCall(advance(IF batchProc.rejected THEN failed(batchProc)
                         ELSE resolved(batchProc)))
    /\ UNCHANGED <<ingestCount, refreshCount, batchCount, hourlyJob>>
    /\ UNCHANGED <<clockVars, alertVars, deliveryVars, cleanupVars>>

\* ingestCollections after `await ingestionService.refreshAffectedMetrics(...)`
BatchReturn ==
    /\ batchProc.pc = "refreshing"
    /\ \A p \in RefreshProcs : refreshProc[p].pc = "idle"
    /\ batchProc' = [IdleBatch EXCEPT !.payloads = batchProc.payloads,
                                      !.groups = batchProc.groups,
                                      !.collab = batchProc.collab,
                                      !.metrics = batchProc.metrics,
                                      !.result = << BatchResult(batchProc) >>]
    /\ UNCHANGED <<collections, batchCount, hourlyJob>>
    /\ UNCHANGED <<pipelineVars, clockVars, alertVars, deliveryVars, cleanupVars>>

\* runHourlyRefreshJob before its call: no call in flight, no result
\* scheduledTask and scheduledTaskWrapper start as null; tasks are the cron
\* tasks created and not stopped, held the wrappers callers were given
IdleHourly == [pc |-> "idle", dirty |-> <<>>, result |-> Null, runs |-> 0,
               scheduledTask |-> Null, scheduledTaskWrapper |-> Null,
               tasks |-> {}, created |-> 0, returned |-> Null, held |-> {}]

\* runHourlyRefreshJob up to `await ingestCollections([])`; dirty keeps the
\* dirty set as the call found it
HourlyRefreshStart ==
    /\ hourlyJob.pc = "idle"
    /\ hourlyJob.runs < MaxHourlyRuns
    /\ IngestCollectionsCall(<<>>, "ok")
    /\ hourlyJob' = [hourlyJob EXCEPT !.pc = "ingest", !.dirty = affectedCollections,
                                      !.result = Null, !.runs = hourlyJob.runs + 1]
    /\ UNCHANGED batchCount

\* runHourlyRefreshJob after the await: it returns the result of ingestCollections
HourlyRefreshReturn ==
    /\ hourlyJob.pc = "ingest"
    /\ batchProc.pc = "idle"
    /\ batchProc.result # Null
    /\ hourlyJob' = [hourlyJob EXCEPT !.pc = "idle", !.result = batchProc.result]
    /\ UNCHANGED <<collections, batchProc, batchCount>>
    /\ UNCHANGED <<pipelineVars, clockVars, alertVars, deliveryVars, cleanupVars>>

MaxSchedules == 3
ScheduleCollaborators == {"ok", "scheduleThrows"}

\* scheduleHourlyRefresh() without its first test: every call creates a task
scheduleHourlyRefresh_unguarded(job, collab) ==
    IF collab = "scheduleThrows" THEN [job EXCEPT !.returned = Null]
    ELSE [job EXCEPT !.created = job.created + 1,
                     !.tasks = job.tasks \cup {job.created + 1},
                     !.scheduledTask = Num(job.created + 1),
                     !.scheduledTaskWrapper = Num(job.created + 1),
                     !.returned = Num(job.created + 1),
                     !.held = job.held \cup {job.created + 1}]

\* scheduleHourlyRefresh(): the wrapper of the scheduled task when there is
\* one; otherwise cron.schedule creates a task (or throws, and the module
\* keeps its nulls) and a new wrapper is stored and returned
scheduleHourlyRefresh(job, collab) ==
    IF job.scheduledTask # Null
    THEN [job EXCEPT !.returned = job.scheduledTaskWrapper]
    ELSE IF collab = "scheduleThrows" THEN [job EXCEPT !.returned = Null]
    ELSE [job EXCEPT !.created = job.created + 1,
                     !.tasks = job.tasks \cup {job.created + 1},
                     !.scheduledTask = Num(job.created + 1),
                     !.scheduledTaskWrapper = Num(job.created + 1),
                     !.returned = Num(job.created + 1),
                     !.held = job.held \cup {job.created + 1}]

\* cancel() of a wrapper: it reads the module's scheduledTask, whichever
\* wrapper it is called on
cancel(job) ==
    IF job.scheduledTask # Null
    THEN [job EXCEPT !.tasks = job.tasks \ {Val(job.scheduledTask)},
                     !.scheduledTask = Null,
                     !.scheduledTaskWrapper = Null]
    ELSE job

ScheduleHourlyRefresh(collab) ==
    /\ hourlyJob.created < MaxSchedules
    /\ hourlyJob' = scheduleHourlyRefresh(hourlyJob, collab)
    /\ UNCHANGED <<collections, batchProc, batchCount>>
    /\ UNCHANGED <<pipelineVars, clockVars, alertVars, deliveryVars, cleanupVars>>

CancelHourly(w) ==
    /\ w \in hourlyJob.held
    /\ hourlyJob' = cancel(hourlyJob)
    /\ UNCHANGED <<collections, batchProc, batchCount>>
    /\ UNCHANGED <<pipelineVars, clockVars, alertVars, deliveryVars, cleanupVars>>

\* the callback handed to cron.schedule: a task that was not stopped runs
\* runHourlyRefreshJob
CronFires(t) ==
    /\ t \in hourlyJob.tasks
    /\ HourlyRefreshStart

InitBatch ==
    /\ collections = <<>>
    /\ batchProc = IdleBatch
    /\ batchCount = 0
    /\ hourlyJob = IdleHourly

NextBatch ==
    \/ \E payloads \in CrawlerBatches, collab \in BatchCollaborators :
          BatchStart(payloads, collab)
    \/ BatchResume
    \/ \E p \in RefreshProcs : RefreshResume(p)
    \/ \E p \in RefreshProcs : RefreshFinish(p)
    \/ BatchReturn

----------------------------------------------------------------------------
(* evaluateAlerts, as the steps between its suspension points *)

EvalProcs == { 1, 2 }

\* the intervals between calls; with the drift of a call, elapsed times of
\* COOLDOWN_WINDOW - 1, COOLDOWN_WINDOW and more all occur
AlertDeltas == { 30 * ONE_MINUTE_MS }

\* the analytics evaluateAlerts is called with: per collection, a price drop
\* alone, and all three rules breached
AnalyticsInputs ==
    { [collectionId |-> c, priceChange24h |-> m[1], volumeChange24h |-> m[2],
       listingCount |-> m[3], previousListingCount |-> m[4]] :
         c \in CollectionIds,
         m \in { <<Num(-15), Null, Null, Null>>,
                 <<Num(-15), Num(75), Num(50), Num(100)>> } }

\* what the collaborators of one call do: the repository in src never rejects;
\* a mocked one rejects its first call (mockRejectedValueOnce); the webhook
\* delivers or rejects after its retries
Collaborators == { "ok", "createRejectsOnce", "webhookRejects" }

IdleProc == [pc |-> "idle", analytics |-> Null, triggered |-> <<>>, idx |-> 0,
             persisted |-> Null, collab |-> "ok"]

createResolves(collab, idx) == ~(collab = "createRejectsOnce" /\ idx = 1)

\* `await alertsRepository.create(alert)` for triggered[idx]: the call runs the
\* repository's body at once, then evaluateAlerts is suspended.
CallCreate(p, analytics, triggered, idx, collab, clock) ==
    /\ createCalls' = Append(createCalls, triggered[idx])
    /\ IF createResolves(collab, idx)
       THEN /\ alerts' = Append(alerts, createdAlert(triggered[idx], alertId, clock))
            /\ alertId' = alertId + 1
            /\ evalProc' = [evalProc EXCEPT ![p] =
                   [pc |-> "notify", analytics |-> analytics,
                    triggered |-> triggered, idx |-> idx,
                    persisted |-> <<createdAlert(triggered[idx], alertId, clock)>>,
                    collab |-> collab]]
       ELSE /\ UNCHANGED <<alerts, alertId>>
            /\ evalProc' = [evalProc EXCEPT ![p] =
                   [pc |-> "failed", analytics |-> analytics,
                    triggered |-> triggered, idx |-> idx,
                    persisted |-> Null, collab |-> collab]]

\* evaluateAlerts from its call to its first suspension point: the three rules
\* and, when an alert was triggered, the call of create for the first one.
EvalStart(p, analytics, drift, collab) ==
    /\ evalProc[p].pc = "idle"
    /\ \A q \in EvalProcs : q < p => evalProc[q].pc # "idle"
    /\ evalCount < MaxEvals
    /\ LET r == evaluateRules(alertCooldowns, now, analytics, drift)
       IN  /\ alertCooldowns' = r.cooldowns
           /\ now' = r.clock
           /\ IF r.triggered = <<>>
              THEN /\ evalProc' = [evalProc EXCEPT ![p] =
                          [IdleProc EXCEPT !.analytics = <<analytics>>]]
                   /\ UNCHANGED <<alerts, alertId, createCalls>>
              ELSE CallCreate(p, <<analytics>>, r.triggered, 1, collab, r.clock)
    /\ evalCount' = evalCount + 1
    /\ UNCHANGED <<ticks, notifyCalls, notifyFailed, channels>>
    /\ UNCHANGED <<deliveryVars, pipelineVars, cleanupVars, batchVars>>

\* evaluateAlerts called without analytics or without a repository: it logs
\* and returns [] before it reads anything
EvalMissing(p) ==
    /\ evalProc[p].pc = "idle"
    /\ \A q \in EvalProcs : q < p => evalProc[q].pc # "idle"
    /\ evalCount < MaxEvals
    /\ evalProc' = [evalProc EXCEPT ![p] = IdleProc]
    /\ evalCount' = evalCount + 1
    /\ UNCHANGED <<now, ticks, alertCooldowns, alerts, alertId, createCalls,
                   notifyCalls, notifyFailed, channels>>
    /\ UNCHANGED <<deliveryVars, pipelineVars, cleanupVars, batchVars>>

\* `await notifyAlert(persistedAlert)`: the configured notifiers are started.
EvalNotify(p) ==
    /\ evalProc[p].pc = "notify"
    /\ notifyCalls' = notifyCalls \cup {[alert |-> evalProc[p].persisted[1],
                                       channels |-> channels]}
    /\ evalProc' = [evalProc EXCEPT ![p].pc = "notifying"]
    /\ delivery' = [delivery EXCEPT ![p] = notifiersStarted(channels)]
    /\ UNCHANGED <<now, ticks, alertCooldowns, alerts, alertId, evalCount,
                   createCalls, notifyFailed, channels, sendCount>>
    /\ UNCHANGED <<pipelineVars, cleanupVars, batchVars>>

\* `for (const alert of triggeredAlerts)` with its try and catch inside the
\* loop body: whatever the last iteration did, the loop goes on
hasNext_untilFailure(proc, d) ==
    /\ proc.idx < Len(proc.triggered)
    /\ proc.pc # "failed"
    /\ d.pc # "failed"

hasNext(proc, d) == proc.idx < Len(proc.triggered)

\* The loop of evaluateAlerts after an await: the notifiers have settled (a
\* rejected webhook is logged by notifyAlert) or create has rejected (the catch
\* logs it); the next alert is created or the call returns triggeredAlerts.
EvalResume(p) ==
    /\ evalProc[p].pc \in {"notifying", "failed"}
    /\ evalProc[p].pc = "notifying" => Settled(delivery[p])
    /\ notifyFailed' =
          IF /\ evalProc[p].pc = "notifying"
             /\ delivery[p].pc = "failed"
          THEN notifyFailed \cup {evalProc[p].persisted[1]}
          ELSE notifyFailed
    /\ delivery' = [delivery EXCEPT ![p] = IdleDelivery]
    /\ IF hasNext(evalProc[p], delivery[p])
       THEN CallCreate(p, evalProc[p].analytics, evalProc[p].triggered,
                       evalProc[p].idx + 1, evalProc[p].collab, now)
       ELSE /\ evalProc' = [evalProc EXCEPT ![p] =
                   [pc |-> "idle", analytics |-> evalProc[p].analytics,
                    triggered |-> evalProc[p].triggered, idx |-> 0,
                    persisted |-> Null, collab |-> "ok"]]
            /\ UNCHANGED <<alerts, alertId, createCalls>>
    /\ UNCHANGED <<now, ticks, alertCooldowns, evalCount, notifyCalls, channels, sendCount>>
    /\ UNCHANGED <<pipelineVars, cleanupVars, batchVars>>

\* what the endpoint answers to a POST of caller p: the collaborators of an
\* evaluateAlerts call fix it, a direct send meets either answer
PostOutcomes(p) ==
    IF evalProc[p].pc # "notifying" THEN BOOLEAN
    ELSE IF evalProc[p].collab = "webhookRejects" THEN { FALSE } ELSE { TRUE }

\* setTimeout(resolve, backoffMs) of the catch block: the timer runs from the
\* clock of the call
timerSet(d, clock) == IF d.pc = "backoff" THEN [d EXCEPT !.timerSetAt = clock] ELSE d

\* `await axios.post(...)` settles
PostSettles(p, ok) ==
    /\ delivery[p].pc = "posting"
    /\ ok \in PostOutcomes(p)
    /\ delivery' = [delivery EXCEPT ![p] = timerSet(postSettled(@, ok), now)]
    /\ UNCHANGED <<now, ticks, alertCooldowns, alerts, alertId, evalProc, evalCount,
                   createCalls, notifyCalls, notifyFailed, channels, sendCount>>
    /\ UNCHANGED <<pipelineVars, cleanupVars, batchVars>>

\* `await new Promise((resolve) => setTimeout(resolve, backoffMs))` settles
\* and sendWithRetry goes on
TimerCallback(p) ==
    /\ delivery[p].pc = "backoff"
    /\ delivery' = [delivery EXCEPT ![p] = timerFired(@)]
    /\ UNCHANGED <<ticks, alertCooldowns, alerts, alertId, evalProc, evalCount,
                   createCalls, notifyCalls, notifyFailed, channels, sendCount>>
    /\ UNCHANGED <<pipelineVars, cleanupVars, batchVars>>

\* the timer fires, the time of the wait not counted on the clock
TimerFires(p) == TimerCallback(p) /\ UNCHANGED now

\* the timer fires, the clock at its due time or later
TimerFiresWhenDue(p) ==
    /\ TimerCallback(p)
    /\ now' = IF now < delivery[p].timerSetAt + delivery[p].backoffMs
              THEN delivery[p].timerSetAt + delivery[p].backoffMs
              ELSE now

\* webhookNotifier.send(alert) called on its own, to its first await
SendStart(p) ==
    /\ evalProc[p].pc = "idle"
    /\ delivery[p].pc = "idle"
    /\ "webhook" \in channels
    /\ sendCount < MaxSends
    /\ sendCount' = sendCount + 1
    /\ delivery' = [delivery EXCEPT ![p] = sendWithRetry(IdleDelivery, 0)]
    /\ UNCHANGED <<now, ticks, alertCooldowns, alerts, alertId, evalProc, evalCount,
                   createCalls, notifyCalls, notifyFailed, channels>>
    /\ UNCHANGED <<pipelineVars, cleanupVars, batchVars>>

\* webhookNotifier.send after `await sendWithRetry(...)`: it resolves, or logs
\* and rethrows
SendReturn(p) ==
    /\ evalProc[p].pc = "idle"
    /\ delivery[p].pc \in { "sent", "failed" }
    /\ delivery' = [delivery EXCEPT ![p] = IdleDelivery]
    /\ UNCHANGED <<now, ticks, alertCooldowns, alerts, alertId, evalProc, evalCount,
                   createCalls, notifyCalls, notifyFailed, channels, sendCount>>
    /\ UNCHANGED <<pipelineVars, cleanupVars, batchVars>>

\* The clock advances by a long interval between calls; while a call is in
\* flight only the milliseconds of drift pass.
Tick(d) ==
    /\ ticks < MaxTicks
    /\ \A p \in EvalProcs : evalProc[p].pc = "idle"
    /\ \A p \in RefreshProcs : refreshProc[p].pc = "idle"
    /\ cleanupProc.pc = "idle"
    /\ now' = now + d
    /\ ticks' = ticks + 1
    /\ UNCHANGED <<alertVars, deliveryVars, pipelineVars, cleanupVars, batchVars>>

Init ==
    /\ now = StartTime
    /\ ticks = 0
    /\ alertCooldowns = <<>>
    /\ alerts = <<>>
    /\ alertId = 0
    /\ evalProc = [p \in EvalProcs |-> IdleProc]
    /\ evalCount = 0
    /\ createCalls = <<>>
    /\ notifyCalls = {}
    /\ notifyFailed = {}
    /\ channels = {"webhook", "email"}
    /\ delivery = [p \in EvalProcs |-> IdleDelivery]
    /\ sendCount = 0
    /\ InitStores
    /\ InitCleanup
    /\ InitBatch

NextAlerts ==
    \/ \E p \in EvalProcs, a \in AnalyticsInputs, drift \in {0, 1}, collab \in Collaborators :
          EvalStart(p, a, drift, collab)
    \/ \E p \in EvalProcs : EvalNotify(p)
    \/ \E p \in EvalProcs : EvalResume(p)
    \/ \E p \in EvalProcs, ok \in BOOLEAN : PostSettles(p, ok)
    \/ \E p \in EvalProcs : TimerFires(p)
    \/ \E d \in AlertDeltas : Tick(d)

SpecAlerts == Init /\ [][NextAlerts]_vars

\* the analytics of the rules' cases: every value at its threshold, every
\* value one past it, values of 0, no previous listings, and fields that are
\* missing; with a collection id and without one
RuleInputs ==
    { [collectionId |-> c, priceChange24h |-> m[1], volumeChange24h |-> m[2],
       listingCount |-> m[3], previousListingCount |-> m[4]] :
         c \in { <<"a">>, Null },
         m \in { <<Num(-10), Num(50), Num(70), Num(100)>>,
                 <<Num(-11), Num(51), Num(69), Num(100)>>,
                 <<Num(0), Num(0), Num(0), Num(100)>>,
                 <<Num(-9), Num(49), Num(5), Num(0)>>,
                 <<Null, Num(51), Null, Num(100)>>,
                 <<Num(-11), Null, Num(69), Null>>,
                 <<Null, Null, Null, Null>> } }

\* evaluateAlerts over the rules' cases, with the repository of src and a
\* webhook that delivers or rejects
NextRules ==
    \/ \E p \in EvalProcs, a \in RuleInputs, drift \in {0, 1},
            collab \in { "ok", "webhookRejects" } : EvalStart(p, a, drift, collab)
    \/ \E p \in EvalProcs : EvalMissing(p)
    \/ \E p \in EvalProcs : EvalNotify(p)
    \/ \E p \in EvalProcs : EvalResume(p)
    \/ \E p \in EvalProcs, ok \in BOOLEAN : PostSettles(p, ok)
    \/ \E p \in EvalProcs : TimerFires(p)

SpecRules == Init /\ [][NextRules]_vars

\* the requests of the alerts API: the ids of the stored alerts and an
\* unknown one, and the bodies that validateUpdateAlert lets through, {} and
\* { resolved }
ApiRequests ==
    [ids |-> { 1, 2, 3, 9 },
     bodies |-> { <<>>, [resolved |-> TRUE], [resolved |-> FALSE] }]

\* PUT /api/alerts/:id
PutAlert(id, body) ==
    /\ alerts' = update(alerts, id, body, now).rows
    /\ UNCHANGED <<alertCooldowns, alertId, evalProc, evalCount, createCalls,
                   notifyCalls, notifyFailed, channels>>
    /\ UNCHANGED <<clockVars, deliveryVars, pipelineVars, cleanupVars, batchVars>>

\* PUT /api/alerts/:id/resolve
PutResolve(id) ==
    /\ alerts' = markAsResolved(alerts, id, now).rows
    /\ UNCHANGED <<alertCooldowns, alertId, evalProc, evalCount, createCalls,
                   notifyCalls, notifyFailed, channels>>
    /\ UNCHANGED <<clockVars, deliveryVars, pipelineVars, cleanupVars, batchVars>>

\* the alerts API beside one evaluation that breaches all three rules
NextAlertsApi ==
    \/ \E a \in { x \in AnalyticsInputs : x.collectionId = <<"a">> } :
          EvalStart(1, a, 0, "ok")
    \/ \E p \in EvalProcs : EvalNotify(p)
    \/ \E p \in EvalProcs : EvalResume(p)
    \/ \E p \in EvalProcs, ok \in BOOLEAN : PostSettles(p, ok)
    \/ \E d \in AlertDeltas : Tick(d)
    \/ \E id \in ApiRequests.ids, body \in ApiRequests.bodies : PutAlert(id, body)
    \/ \E id \in ApiRequests.ids : PutResolve(id)

SpecAlertsApi == Init /\ [][NextAlertsApi]_vars

NextWebhook ==
    \/ \E p \in EvalProcs : SendStart(p)
    \/ \E p \in EvalProcs, ok \in BOOLEAN : PostSettles(p, ok)
    \/ \E p \in EvalProcs : TimerFires(p)
    \/ \E p \in EvalProcs : SendReturn(p)

SpecWebhook == Init /\ [][NextWebhook]_vars

\* webhookNotifier.send with the waits of its retries on the clock
NextBackoff ==
    \/ \E p \in EvalProcs : SendStart(p)
    \/ \E p \in EvalProcs, ok \in BOOLEAN : PostSettles(p, ok)
    \/ \E p \in EvalProcs : TimerFiresWhenDue(p)
    \/ \E p \in EvalProcs : SendReturn(p)

SpecBackoff == Init /\ [][NextBackoff]_vars

SpecBatch == Init /\ [][NextBatch]_vars

\* axios.post settles within its timeout and a timer fires
SpecWebhookLive ==
    /\ SpecWebhook
    /\ \A p \in EvalProcs : WF_vars(\E ok \in BOOLEAN : PostSettles(p, ok))
    /\ \A p \in EvalProcs : WF_vars(TimerFires(p))

NextPipeline ==
    \/ \E kind \in IngestKinds, c \in CollectionIds, payload \in EventPayloads :
          Ingest(kind, c, payload)
    \/ \E p \in RefreshProcs, collab \in RefreshCollaborators : RefreshStart(p, collab)
    \/ \E p \in RefreshProcs : RefreshResume(p)
    \/ \E p \in RefreshProcs : RefreshFinish(p)

SpecPipeline == Init /\ [][NextPipeline]_vars

\* events around the ends of the windows: stamped by the store at the clock
\* of the ingest, one millisecond after the first clock value, an hour before
\* it, one millisecond more than an hour before it, and with a timestamp that
\* is not a date; the quantities tell the events apart in a trade volume
WindowPayloads ==
    { [id |-> "e1", quantity |-> Num(1)],
      [id |-> "e2", quantity |-> Num(2), timestamp |-> toISOString(StartTime + 1)],
      [id |-> "e3", quantity |-> Num(4), timestamp |-> toISOString(StartTime - ONE_HOUR_MS)],
      [id |-> "e4", quantity |-> Num(8), timestamp |-> toISOString(StartTime - ONE_HOUR_MS - 1)],
      [id |-> "e5", quantity |-> Num(16), timestamp |-> InvalidDate] }

\* the clock advances between calls by one millisecond or by what brings the
\* event of an hour ago to the start of the 6h, the 24h or the 72h window
WindowDeltas == { 1, 5 * ONE_HOUR_MS, 18 * ONE_HOUR_MS, 71 * ONE_HOUR_MS }

\* intake and refresh of one collection around the ends of the windows
NextWindows ==
    \/ \E kind \in { "listing_event", "purchase_event" }, payload \in WindowPayloads :
          Ingest(kind, <<"a">>, payload)
    \/ \E d \in WindowDeltas : Tick(d)
    \/ \E p \in RefreshProcs : RefreshStart(p, "ok")
    \/ \E p \in RefreshProcs : RefreshResume(p)
    \/ \E p \in RefreshProcs : RefreshFinish(p)

SpecWindows == Init /\ [][NextWindows]_vars

\* events with the prices of the cases of priceChange: 100, 150, 0, a price
\* of null and no price
PricePayloads ==
    { [id |-> "p1", price |-> Num(100)],
      [id |-> "p2", price |-> Num(150)],
      [id |-> "p3", price |-> Num(0)],
      [id |-> "p4", price |-> Null],
      [id |-> "p5", quantity |-> Num(1)] }

\* intake and refresh of one collection over the cases of priceChange
NextPrices ==
    \/ \E kind \in { "listing_event", "purchase_event" }, payload \in PricePayloads :
          Ingest(kind, <<"a">>, payload)
    \/ \E p \in RefreshProcs : RefreshStart(p, "ok")
    \/ \E p \in RefreshProcs : RefreshResume(p)
    \/ \E p \in RefreshProcs : RefreshFinish(p)

SpecPrices == Init /\ [][NextPrices]_vars

\* the events of the window-correctness example: a price of 100 thirty
\* minutes before the start, a price of 150 ten minutes before it
ChronoPayloads ==
    { [id |-> "t1", price |-> Num(100), quantity |-> Num(1),
       timestamp |-> toISOString(StartTime - 30 * 60 * 1000)],
      [id |-> "t2", price |-> Num(150), quantity |-> Num(2),
       timestamp |-> toISOString(StartTime - 10 * 60 * 1000)] }

\* intake of the two events in either order, as listing or as purchase
\* events, and refresh
NextChronology ==
    \/ \E kind \in { "listing_event", "purchase_event" }, payload \in ChronoPayloads :
          Ingest(kind, <<"a">>, payload)
    \/ \E p \in RefreshProcs : RefreshStart(p, "ok")
    \/ \E p \in RefreshProcs : RefreshResume(p)
    \/ \E p \in RefreshProcs : RefreshFinish(p)

SpecChronology == Init /\ [][NextChronology]_vars

\* the alert data read from the computed metrics: the fields of the 24h row
\* of the collection. The rule compares priceChange24h with an integer, which
\* cannot tell a number from its floor: the number is kept by its floor
alertDataFromMetrics(metrics, collectionId) ==
    LET found == SelectSeq(metrics, LAMBDA m : m.window = "24h")
    IN  IF found = <<>>
        THEN [collectionId |-> collectionId, priceChange24h |-> Null,
              volumeChange24h |-> Null, listingCount |-> Null,
              previousListingCount |-> Num(100)]
        ELSE [collectionId |-> collectionId,
              priceChange24h |-> IF found[1].priceChange = Null THEN Null
                                 ELSE Num(found[1].priceChange[1] \div found[1].priceChange[2]),
              volumeChange24h |-> Num(found[1].tradeVolume),
              listingCount |-> Num(found[1].buyCount),
              previousListingCount |-> Num(100)]

\* checkAlertsForCollection(collectionId, metrics) over the stored metrics of
\* the collection
CheckAlertsForCollection(p, collectionId) ==
    EvalStart(p, alertDataFromMetrics(SelectSeq(analyticsMetrics,
                                     LAMBDA m : m.collectionId = collectionId),
                           collectionId), 0, "ok")

\* intake and refresh of one collection over the cases of priceChange, and
\* the alert rules over the metrics the refresh stored
NextEngineAlerts ==
    \/ \E kind \in { "listing_event", "purchase_event" }, payload \in PricePayloads :
          Ingest(kind, <<"a">>, payload)
    \/ \E p \in RefreshProcs : RefreshStart(p, "ok")
    \/ \E p \in RefreshProcs : RefreshResume(p)
    \/ \E p \in RefreshProcs : RefreshFinish(p)
    \/ CheckAlertsForCollection(1, <<"a">>)
    \/ \E p \in EvalProcs : EvalNotify(p)
    \/ \E p \in EvalProcs : EvalResume(p)
    \/ \E p \in EvalProcs : PostSettles(p, TRUE)

SpecEngineAlerts == Init /\ [][NextEngineAlerts]_vars

\* the orders in which a set of prices can have been stored
OrdersOf(S) ==
    { o \in [1..Cardinality(S) -> S] : \A i, j \in 1..Cardinality(S) : i # j => o[i] # o[j] }

\* the prices of the listing events stored for a collection before a refresh:
\* three or four prices, in every order
PriceOrders == OrdersOf({100, 200, 300}) \cup OrdersOf({100, 200, 300, 400})

\* the dataStore after ingestListingEvent for each of the prices, in order
RECURSIVE storeOfPrices(_, _)
storeOfPrices(prices, n) ==
    IF n = 0 THEN EmptyDataStore
    ELSE addListingEvent(storeOfPrices(prices, n - 1), <<"a">>,
                         [id |-> ToString(n), price |-> Num(prices[n])], StartTime)

\* the state after the intake of the listing events of one order of prices
InitMedian ==
    /\ now = StartTime
    /\ ticks = 0
    /\ alertCooldowns = <<>>
    /\ alerts = <<>>
    /\ alertId = 0
    /\ evalProc = [p \in EvalProcs |-> IdleProc]
    /\ evalCount = 0
    /\ createCalls = <<>>
    /\ notifyCalls = {}
    /\ notifyFailed = {}
    /\ channels = {"webhook", "email"}
    /\ delivery = [p \in EvalProcs |-> IdleDelivery]
    /\ sendCount = 0
    /\ \E prices \in PriceOrders : dataStore = storeOfPrices(prices, Len(prices))
    /\ affectedCollections = << <<"a">> >>
    /\ analyticsMetrics = <<>>
    /\ metricsId = 0
    /\ refreshProc = [p \in RefreshProcs |-> IdleRefresh]
    /\ ingestCount = 0
    /\ refreshCount = 0
    /\ InitCleanup
    /\ InitBatch

\* refresh over the stored prices, and the intake of a purchase event with
\* a price between the stored ones
NextMedian ==
    \/ \E payload \in { [id |-> "m1", price |-> Num(250)] } :
          Ingest("purchase_event", <<"a">>, payload)
    \/ \E p \in RefreshProcs : RefreshStart(p, "ok")
    \/ \E p \in RefreshProcs : RefreshResume(p)
    \/ \E p \in RefreshProcs : RefreshFinish(p)

SpecMedian == InitMedian /\ [][NextMedian]_vars

\* the hourly job beside intake and refreshAffectedMetrics; events arrive
\* between the runs of the job
NextHourly ==
    \/ \E kind \in IngestKinds, payload \in EventPayloads :
          hourlyJob.pc = "idle" /\ Ingest(kind, <<"a">>, payload)
    \/ \E p \in RefreshProcs : hourlyJob.pc = "idle" /\ RefreshStart(p, "ok")
    \/ \E p \in RefreshProcs : RefreshResume(p)
    \/ \E p \in RefreshProcs : RefreshFinish(p)
    \/ HourlyRefreshStart
    \/ HourlyRefreshReturn

SpecHourly == Init /\ [][NextHourly]_vars

\* the cron schedule of the hourly job: callers schedule and cancel, the
\* tasks that live fire
NextCron ==
    \/ \E collab \in ScheduleCollaborators : ScheduleHourlyRefresh(collab)
    \/ \E w \in 1..MaxSchedules : CancelHourly(w)
    \/ \E t \in 1..MaxSchedules : CronFires(t)
    \/ \E kind \in IngestKinds, payload \in EventPayloads :
          hourlyJob.pc = "idle" /\ Ingest(kind, <<"a">>, payload)
    \/ HourlyRefreshReturn

SpecCron == Init /\ [][NextCron]_vars

----------------------------------------------------------------------------
(* runCleanupJob, as the steps between its suspension points *)

\* the options of a run: the retention of the environment, the batch size of
\* the environment or one row
CleanupOptions ==
    { [retentionHours |-> Null, batchSize |-> b, repositories |-> "store"] :
         b \in { Null, Num(1) } }

\* the payloads of the ingest calls before a sweep: a row stamped by the
\* store, a row one millisecond older than the first clock value, a row whose
\* timestamp is not a date
SweepPayloads ==
    { [id |-> "e1"],
      [id |-> "e1", timestamp |-> toISOString(StartTime - 1)],
      [timestamp |-> InvalidDate] }

\* the clock advances by the retention between calls: a row stamped at the
\* first clock value is at the cutoff of a sweep one interval later
SweepDeltas == { dataRetentionHours * ONE_HOUR_MS }

\* deleteFromCollections replaces the array of a key; a refresh that holds the
\* old array keeps it
detachRef(ref, table, collectionId, replaced) ==
    IF ref.live /\ collectionId \in replaced
    THEN Detached(getEntries(table, collectionId))
    ELSE ref

detachRefs(proc, tableName, table, replaced) ==
    IF proc.pc # "upsert" THEN proc
    ELSE IF tableName = "listingEvents"
    THEN [proc EXCEPT !.listingEvents =
             detachRef(@, table, proc.collections[proc.ci], replaced)]
    ELSE IF tableName = "purchaseEvents"
    THEN [proc EXCEPT !.purchaseEvents =
             detachRef(@, table, proc.collections[proc.ci], replaced)]
    ELSE proc

\* processTable: iteration += 1; await Promise.resolve(deleteBatch())
DeleteBatch(proc) ==
    LET task == CleanupTasks[proc.task]
    IN  IF deleteBatchThrows(proc.repositories, proc.task, proc.iteration + 1)
        THEN /\ cleanupProc' = [proc EXCEPT !.pc = "throw", !.iteration = @ + 1, !.removed = 0]
             /\ UNCHANGED <<dataStore, analyticsMetrics, refreshProc>>
        ELSE IF proc.repositories = "full"
        THEN /\ cleanupProc' = [proc EXCEPT !.pc = "batch", !.iteration = @ + 1,
                                            !.removed = proc.batchSize]
             /\ UNCHANGED <<dataStore, analyticsMetrics, refreshProc>>
        ELSE IF task.table = "analyticsMetrics"
        THEN LET r == deleteOlderThan(analyticsMetrics, proc.cutoffDate, Num(proc.batchSize))
             IN  /\ analyticsMetrics' = r.rows
                 /\ UNCHANGED <<dataStore, refreshProc>>
                 /\ cleanupProc' = [proc EXCEPT !.pc = "batch", !.iteration = @ + 1,
                                                !.removed = r.deleted]
        ELSE LET r == deleteFromCollections(dataStore[task.table], proc.cutoffDate,
                                            Num(proc.batchSize))
             IN  /\ dataStore' = [dataStore EXCEPT ![task.table] = r.table]
                 /\ refreshProc' = [p \in RefreshProcs |->
                        detachRefs(refreshProc[p], task.table, dataStore[task.table],
                                   r.replaced)]
                 /\ UNCHANGED analyticsMetrics
                 /\ cleanupProc' = [proc EXCEPT !.pc = "batch", !.iteration = @ + 1,
                                                !.removed = r.deleted]

\* runCleanupJob from its call to its first suspension point
CleanupCall(options) ==
    /\ cleanupProc.pc = "idle"
    /\ cleanupCount < MaxCleanups
    /\ cleanupCount' = cleanupCount + 1
    /\ LET retentionHours == normalizePositiveNumber(options.retentionHours, dataRetentionHours)
       IN  DeleteBatch([IdleCleanup EXCEPT
               !.retentionHours = retentionHours,
               !.nowMs = now,
               !.cutoffDate = getCutoffDate(retentionHours, now),
               !.batchSize = normalizeBatchSize(options.batchSize, cleanupBatchSize),
               !.repositories = options.repositories,
               !.expiredAtCall =
                   [i \in 1..Len(CleanupTasks) |->
                       ExpiredRows(TableRows(dataStore, analyticsMetrics,
                                             CleanupTasks[i].table),
                                   now - retentionHours * ONE_HOUR_MS)],
               !.task = 1])
    /\ UNCHANGED <<affectedCollections, metricsId, ingestCount, refreshCount>>
    /\ UNCHANGED <<clockVars, alertVars, deliveryVars, batchVars>>

\* a direct call of runCleanupJob
CleanupStart(options) ==
    /\ CleanupCall(options)
    /\ UNCHANGED cleanupSchedule

\* the loop of processTable ends: the batch was not full, or the cap is reached
loopEnds_uncapped(proc) ==
    \/ proc.batchSize <= 0
    \/ proc.removed < proc.batchSize

\* mutant: the loop ends after its first batch
loopEnds_afterOneBatch(proc) ==
    \/ proc.batchSize <= 0
    \/ proc.iteration >= 1

loopEnds(proc) ==
    \/ proc.batchSize <= 0
    \/ proc.removed < proc.batchSize
    \/ proc.iteration >= MAX_BATCH_ITERATIONS

\* processTable after its await: count the batch, then stop or delete again
CleanupResume ==
    /\ cleanupProc.pc = "batch"
    /\ LET counted == [cleanupProc EXCEPT !.totalDeleted = @ + cleanupProc.removed]
       IN  IF loopEnds(counted)
           THEN /\ cleanupProc' = [counted EXCEPT !.pc = "table"]
                /\ UNCHANGED <<dataStore, analyticsMetrics, refreshProc>>
           ELSE DeleteBatch(counted)
    /\ UNCHANGED <<affectedCollections, metricsId, ingestCount, refreshCount, cleanupCount,
                   cleanupSchedule>>
    /\ UNCHANGED <<clockVars, alertVars, deliveryVars, batchVars>>

\* runCleanupJob after `await processTable(...)`: record the count, go to the
\* next table or return the summary
CleanupNextTable ==
    /\ cleanupProc.pc = "table"
    /\ LET recorded == [cleanupProc EXCEPT !.summary = Append(@, cleanupProc.totalDeleted)]
       IN  IF cleanupProc.task < Len(CleanupTasks)
           THEN DeleteBatch([recorded EXCEPT !.task = @ + 1, !.iteration = 0,
                                             !.removed = 0, !.totalDeleted = 0])
           ELSE /\ cleanupProc' = [IdleCleanup EXCEPT !.cutoffDate = recorded.cutoffDate,
                                                      !.summary = recorded.summary,
                                                      !.outcome = "resolved",
                                                      !.skipped = SKIPPED_TABLES]
                /\ UNCHANGED <<dataStore, analyticsMetrics, refreshProc>>
    /\ UNCHANGED <<affectedCollections, metricsId, ingestCount, refreshCount, cleanupCount,
                   cleanupSchedule>>
    /\ UNCHANGED <<clockVars, alertVars, deliveryVars, batchVars>>

\* mutant: the failure is logged, the table is left and the run goes on
CleanupReject_skipping ==
    /\ cleanupProc.pc = "throw"
    /\ cleanupProc' = [cleanupProc EXCEPT !.pc = "table"]
    /\ UNCHANGED <<dataStore, analyticsMetrics, refreshProc>>
    /\ UNCHANGED <<affectedCollections, metricsId, ingestCount, refreshCount, cleanupCount,
                   cleanupSchedule>>
    /\ UNCHANGED <<clockVars, alertVars, deliveryVars, batchVars>>

\* runCleanupJob after `await processTable(...)` when a delete batch threw:
\* the catch block logs and rethrows, the run rejects
CleanupReject ==
    /\ cleanupProc.pc = "throw"
    /\ cleanupProc' = [IdleCleanup EXCEPT !.cutoffDate = cleanupProc.cutoffDate,
                                          !.summary = cleanupProc.summary,
                                          !.task = cleanupProc.task,
                                          !.outcome = "rejected"]
    /\ UNCHANGED <<dataStore, analyticsMetrics, refreshProc>>
    /\ UNCHANGED <<affectedCollections, metricsId, ingestCount, refreshCount, cleanupCount,
                   cleanupSchedule>>
    /\ UNCHANGED <<clockVars, alertVars, deliveryVars, batchVars>>

\* In this specification a refresh runs between the other calls, not across
\* them: SpecPipeline has the ingests that interleave with a refresh.
NextSweep ==
    \/ \E kind \in IngestKinds, c \in CollectionIds, payload \in SweepPayloads :
          /\ \A p \in RefreshProcs : refreshProc[p].pc = "idle"
          /\ Ingest(kind, c, payload)
    \/ \E p \in RefreshProcs :
          /\ cleanupProc.pc = "idle"
          /\ refreshCount < MaxSweepRefreshes
          /\ RefreshStart(p, "ok")
    \/ \E p \in RefreshProcs : RefreshResume(p)
    \/ \E p \in RefreshProcs : RefreshFinish(p)
    \/ \E options \in CleanupOptions :
          /\ \A p \in RefreshProcs : refreshProc[p].pc = "idle"
          /\ CleanupStart(options)
    \/ CleanupResume
    \/ CleanupNextTable
    \/ \E d \in SweepDeltas : Tick(d)

SpecSweep == Init /\ [][NextSweep]_vars

\* the sweep on its own: the ingests, the refresh and the clock move between
\* the runs of the job and never within one
NextQuietSweep ==
    \/ \E kind \in IngestKinds, c \in CollectionIds, payload \in SweepPayloads :
          /\ \A p \in RefreshProcs : refreshProc[p].pc = "idle"
          /\ cleanupProc.pc = "idle"
          /\ Ingest(kind, c, payload)
    \/ \E p \in RefreshProcs :
          /\ cleanupProc.pc = "idle"
          /\ refreshCount < MaxSweepRefreshes
          /\ RefreshStart(p, "ok")
    \/ \E p \in RefreshProcs : RefreshResume(p)
    \/ \E p \in RefreshProcs : RefreshFinish(p)
    \/ \E options \in CleanupOptions :
          /\ \A p \in RefreshProcs : refreshProc[p].pc = "idle"
          /\ CleanupStart(options)
    \/ CleanupResume
    \/ CleanupNextTable
    \/ \E d \in SweepDeltas : Tick(d)

SpecQuietSweep == Init /\ [][NextQuietSweep]_vars

----------------------------------------------------------------------------
(* scheduleCleanup: the timer, its callback and cancel() *)

\* scheduleNext: nothing when stopped, else the timer is set to the next run
scheduleNext(schedule, clock) ==
    IF schedule.stopped THEN schedule
    ELSE [schedule EXCEPT !.timer = TRUE,
                          !.nextRunAt = clock + getDelayUntilNextRun(clock)]

\* scheduleCleanup(options)
ScheduleCleanup(options) ==
    /\ ~cleanupSchedule.scheduled
    /\ cleanupProc.pc = "idle"
    /\ cleanupSchedule' =
          scheduleNext([NoSchedule EXCEPT
                           !.scheduled = TRUE,
                           !.retentionHours =
                               normalizePositiveNumber(options.retentionHours, dataRetentionHours),
                           !.batchSize =
                               normalizeBatchSize(options.batchSize, cleanupBatchSize)],
                       now)
    /\ UNCHANGED <<cleanupProc, cleanupCount>>
    /\ UNCHANGED <<clockVars, alertVars, deliveryVars, pipelineVars, batchVars>>

\* the time passes until the timer is due
AdvanceToTimer ==
    /\ cleanupSchedule.timer
    /\ now < cleanupSchedule.nextRunAt
    /\ cleanupProc.pc = "idle"
    /\ now' = cleanupSchedule.nextRunAt
    /\ UNCHANGED ticks
    /\ UNCHANGED <<alertVars, deliveryVars, pipelineVars, cleanupVars, batchVars>>

\* the callback of the timer, to the first suspension point of runCleanupJob
CleanupTimer ==
    /\ cleanupSchedule.timer
    /\ now >= cleanupSchedule.nextRunAt
    /\ CleanupCall([retentionHours |-> Num(cleanupSchedule.retentionHours),
                    batchSize |-> Num(cleanupSchedule.batchSize),
                    repositories |-> "store"])
    /\ cleanupSchedule' = [cleanupSchedule EXCEPT !.timer = FALSE, !.running = TRUE]

\* cancel() of the object scheduleCleanup returned
Cancel ==
    /\ cleanupSchedule.scheduled
    /\ ~cleanupSchedule.stopped
    /\ cleanupSchedule' = [cleanupSchedule EXCEPT !.timer = FALSE, !.stopped = TRUE]
    /\ UNCHANGED <<cleanupProc, cleanupCount>>
    /\ UNCHANGED <<clockVars, alertVars, deliveryVars, pipelineVars, batchVars>>

\* the callback after `await runCleanupJob(...)`: finally scheduleNext()
ScheduleNext ==
    /\ cleanupSchedule.running
    /\ cleanupProc.pc = "idle"
    /\ cleanupSchedule' = scheduleNext([cleanupSchedule EXCEPT !.running = FALSE], now)
    /\ UNCHANGED <<cleanupProc, cleanupCount>>
    /\ UNCHANGED <<clockVars, alertVars, deliveryVars, pipelineVars, batchVars>>

NextSchedule ==
    \/ \E kind \in IngestKinds, payload \in SweepPayloads :
          /\ cleanupProc.pc = "idle"
          /\ Ingest(kind, <<"a">>, payload)
    \/ \E d \in SweepDeltas : Tick(d)
    \/ \E options \in CleanupOptions : ScheduleCleanup(options)
    \/ AdvanceToTimer
    \/ CleanupTimer
    \/ CleanupResume
    \/ CleanupNextTable
    \/ Cancel
    \/ ScheduleNext

SpecSchedule == Init /\ [][NextSchedule]_vars

----------------------------------------------------------------------------
(* runCleanupJob beside the collection and alert repositories *)

\* the options of a run over the stores of src or over a dataStore whose
\* delete of listing events throws at its second call
RetentionOptions ==
    { [retentionHours |-> Null, batchSize |-> b, repositories |-> r] :
         b \in { Null, Num(1) }, r \in { "store", "listingThrows" } }

\* collectionRepository.upsertCollection(collectionId, metadata)
UpsertCollection(collectionId, metadata) ==
    /\ cleanupProc.pc = "idle"
    /\ collectionIndex(collections, collectionId) # 0 \/ Len(collections) < MaxCollectionRows
    /\ collections' = upsertCollection(collections, collectionId, metadata, now)
    /\ UNCHANGED <<batchProc, batchCount, hourlyJob>>
    /\ UNCHANGED <<clockVars, alertVars, deliveryVars, pipelineVars, cleanupVars>>

\* alertsRepository.create(alertData)
CreateAlert(alertData) ==
    /\ cleanupProc.pc = "idle"
    /\ Len(alerts) < MaxAlertRows
    /\ alerts' = Append(alerts, createdAlert(alertData, alertId, now))
    /\ alertId' = alertId + 1
    /\ UNCHANGED <<alertCooldowns, evalProc, evalCount, createCalls, notifyCalls,
                   notifyFailed, channels>>
    /\ UNCHANGED <<clockVars, deliveryVars, pipelineVars, cleanupVars, batchVars>>

\* the alert handed to create: a price drop of the collection, triggered now
DirectAlerts ==
    { [collectionId |-> <<"a">>, type |-> "price_drop", severity |-> Severity("price_drop"),
       message |-> [text |-> "Price dropped", hundredths |-> 1000],
       triggeredAt |-> now] }

NextRetention ==
    \/ \E kind \in IngestKinds, payload \in SweepPayloads :
          /\ cleanupProc.pc = "idle"
          /\ Ingest(kind, <<"a">>, payload)
    \/ UpsertCollection(<<"a">>, [name |-> "A"])
    \/ \E alertData \in DirectAlerts : CreateAlert(alertData)
    \/ \E options \in RetentionOptions : CleanupStart(options)
    \/ CleanupResume
    \/ CleanupNextTable
    \/ CleanupReject
    \/ \E d \in SweepDeltas : Tick(d)

SpecRetention == Init /\ [][NextRetention]_vars

----------------------------------------------------------------------------
(* runCleanupJob over repositories that report a full batch at every call *)

CapOptions ==
    { [retentionHours |-> Null, batchSize |-> b, repositories |-> r] :
         b \in { Null, Num(1) }, r \in { "store", "full" } }

NextSweepCap ==
    \/ \E options \in CapOptions : CleanupStart(options)
    \/ CleanupResume
    \/ CleanupNextTable

SpecSweepCap == Init /\ [][NextSweepCap]_vars

\* every await of a run is on a promise that settles, and the event loop runs
\* the continuation of a settled promise
SpecSweepCapLive ==
    SpecSweepCap /\ WF_vars(CleanupResume) /\ WF_vars(CleanupNextTable)

----------------------------------------------------------------------------
(* Properties of the alert evaluator *)

\* every alert evaluateAlerts has triggered so far: the ones create was called
\* with, and the ones of a call in flight that still wait for their create
TriggeredSoFar ==
    { <<0, i>> : i \in 1..Len(createCalls) }
      \cup { <<p, k>> : p \in EvalProcs, k \in 1..3 }

IsTriggered(o) ==
    IF o[1] = 0 THEN TRUE
    ELSE /\ evalProc[o[1]].pc # "idle"
         /\ o[2] > evalProc[o[1]].idx
         /\ o[2] <= Len(evalProc[o[1]].triggered)

TriggeredAlert(o) == IF o[1] = 0 THEN createCalls[o[2]] ELSE evalProc[o[1]].triggered[o[2]]

SameKey(a, b) == a.collectionId = b.collectionId /\ a.type = b.type

\* the position of a rule in evaluateAlerts
RuleIndex(alertType) ==
    CASE alertType = "price_drop" -> 1
      [] alertType = "volume_spike" -> 2
      [] alertType = "listing_depletion" -> 3

TypesOf(triggered) == { triggered[k].type : k \in 1..Len(triggered) }

\* the clock a rule of the call reads in shouldThrottle: the clock at the call
\* plus the drift of every rule before it that triggered
CheckTime(alertType, triggered, drift) ==
    now + drift * Cardinality({ t \in TypesOf(triggered) : RuleIndex(t) < RuleIndex(alertType) })

\* C1: any two alerts triggered for the same (collectionId, type) have trigger
\* times at least COOLDOWN_WINDOW apart, for the alerts handed to create and
\* for the stored ones.
C1_CooldownSeparation ==
    /\ \A o1 \in TriggeredSoFar, o2 \in TriggeredSoFar :
          (o1 # o2 /\ IsTriggered(o1) /\ IsTriggered(o2)
             /\ SameKey(TriggeredAlert(o1), TriggeredAlert(o2)))
          => Abs(TriggeredAlert(o1).triggeredAt - TriggeredAlert(o2).triggeredAt)
                >= COOLDOWN_WINDOW
    /\ \A i \in 1..Len(alerts), j \in 1..Len(alerts) :
          (i # j /\ SameKey(alerts[i], alerts[j]))
          => Abs(alerts[i].triggeredAt - alerts[j].triggeredAt) >= COOLDOWN_WINDOW

\* two stored alerts of one (collectionId, type): the second came after the cooldown
C1_Witness ==
    \E i \in 1..Len(alerts), j \in 1..Len(alerts) :
         i < j /\ SameKey(alerts[i], alerts[j])

C8_RulesGatedIndependently ==
    [][\A p \in EvalProcs, a \in AnalyticsInputs, drift \in {0, 1}, collab \in Collaborators :
          EvalStart(p, a, drift, collab) =>
             /\ \A t \in AlertTypes :
                   ( /\ Breach(a, t)
                     /\ \/ getCooldownKey(a.collectionId, t) \notin DOMAIN alertCooldowns
                        \/ now - alertCooldowns[getCooldownKey(a.collectionId, t)]
                             >= COOLDOWN_WINDOW )
                   => t \in TypesOf(evalProc'[p].triggered)
             /\ ( /\ \A t \in AlertTypes : Breach(a, t)
                  /\ \A t \in AlertTypes :
                        getCooldownKey(a.collectionId, t) \notin DOMAIN alertCooldowns )
                => ( /\ Len(evalProc'[p].triggered) = 3
                     /\ TypesOf(evalProc'[p].triggered) = AlertTypes )]_vars

\* a call with three breaches that created the volume and the listing alert
\* while the price drop of its collection was in cooldown
C8_Witness ==
    \E p \in EvalProcs :
       /\ evalProc[p].analytics # Null
       /\ \A t \in AlertTypes : Breach(evalProc[p].analytics[1], t)
       /\ TypesOf(evalProc[p].triggered) = {"volume_spike", "listing_depletion"}
       /\ getCooldownKey(evalProc[p].analytics[1].collectionId, "price_drop")
            \in DOMAIN alertCooldowns

\* the alerts whose create rejected, and the ones whose notifier rejected
CreateFailed ==
    { i \in 1..Len(createCalls) :
        \A j \in 1..Len(alerts) :
           ~(SameKey(alerts[j], createCalls[i])
               /\ alerts[j].triggeredAt = createCalls[i].triggeredAt) }

FailedAlerts ==
    { createCalls[i] : i \in CreateFailed }
      \cup { [collectionId |-> a.collectionId, type |-> a.type, severity |-> a.severity,
              message |-> a.message, triggeredAt |-> a.triggeredAt] : a \in notifyFailed }

\* C9: after create or a notifier has failed for a triggered alert, the cooldown
\* entry of its (collectionId, type) is still set, to the time recorded at the
\* trigger or to that of a later trigger, and no other alert of that
\* (collectionId, type) is triggered inside the window after it.
C9_FailureKeepsCooldown ==
    \A f \in FailedAlerts :
       /\ getCooldownKey(f.collectionId, f.type) \in DOMAIN alertCooldowns
       /\ alertCooldowns[getCooldownKey(f.collectionId, f.type)] >= f.triggeredAt
       /\ \A o \in TriggeredSoFar :
             (IsTriggered(o) /\ SameKey(TriggeredAlert(o), f)
                /\ TriggeredAlert(o).triggeredAt > f.triggeredAt)
             => TriggeredAlert(o).triggeredAt - f.triggeredAt >= COOLDOWN_WINDOW

\* an alert whose create rejected, and a later call inside the window whose
\* breach of the same (collectionId, type) was suppressed
C9_Witness ==
    \E i \in CreateFailed, p \in EvalProcs :
         /\ evalProc[p].analytics # Null
         /\ evalProc[p].analytics[1].collectionId = createCalls[i].collectionId
         /\ Breach(evalProc[p].analytics[1], createCalls[i].type)
         /\ createCalls[i].type \notin TypesOf(evalProc[p].triggered)
         /\ now > createCalls[i].triggeredAt + 1
         /\ now - createCalls[i].triggeredAt < COOLDOWN_WINDOW

\* C10: a breach suppressed by the cooldown puts no alert of its type in the
\* result and leaves its cooldown entry as it was; and create and notifyAlert
\* are only ever called with alerts of a call's triggeredAlerts.
C10_SuppressedBreachHasNoEffect ==
    [][/\ \A p \in EvalProcs, a \in AnalyticsInputs, drift \in {0, 1}, collab \in Collaborators :
            EvalStart(p, a, drift, collab) =>
               \A t \in AlertTypes :
                  ( /\ Breach(a, t)
                    /\ getCooldownKey(a.collectionId, t) \in DOMAIN alertCooldowns
                    /\ CheckTime(t, evalProc'[p].triggered, drift)
                         - alertCooldowns[getCooldownKey(a.collectionId, t)] < COOLDOWN_WINDOW )
                  => /\ t \notin TypesOf(evalProc'[p].triggered)
                     /\ alertCooldowns'[getCooldownKey(a.collectionId, t)]
                          = alertCooldowns[getCooldownKey(a.collectionId, t)]
       /\ \A i \in (Len(createCalls) + 1)..Len(createCalls') :
             \E p \in EvalProcs : \E k \in 1..Len(evalProc'[p].triggered) :
                evalProc'[p].triggered[k] = createCalls'[i]
       /\ \A n \in notifyCalls' \ notifyCalls :
             \E p \in EvalProcs : \E k \in 1..Len(evalProc'[p].triggered) :
                /\ SameKey(evalProc'[p].triggered[k], n.alert)
                /\ evalProc'[p].triggered[k].triggeredAt = n.alert.triggeredAt
      ]_vars

\* a returned call whose price-drop breach was suppressed: nothing was
\* triggered, created or notified for it
C10_Witness ==
    \E p \in EvalProcs :
         /\ evalProc[p].pc = "idle"
         /\ evalProc[p].analytics # Null
         /\ Breach(evalProc[p].analytics[1], "price_drop")
         /\ evalProc[p].triggered = <<>>

\* call p of evaluateAlerts starts in this step while call q is at an await
Overlaps(p, q) ==
    /\ p # q
    /\ evalProc[p].pc = "idle"
    /\ evalProc'[p] # evalProc[p]
    /\ evalProc[q].pc # "idle"
    /\ evalProc'[q] = evalProc[q]

\* C37: the check and the record of a rule's cooldown are one step, so a
\* call of evaluateAlerts that starts while another call on the same
\* collection awaits persistence or notification triggers no alert of a
\* type the other call has triggered, and the key of every alert the other
\* call triggered is in the cooldowns by then
C37_OverlappingCallsAlertOnce ==
    [][ \A p, q \in EvalProcs :
          Overlaps(p, q) =>
             /\ \A j \in 1..Len(evalProc[q].triggered) :
                    getCooldownKey(evalProc[q].triggered[j].collectionId,
                                   evalProc[q].triggered[j].type) \in DOMAIN alertCooldowns
             /\ \A i \in 1..Len(evalProc'[p].triggered),
                   j \in 1..Len(evalProc[q].triggered) :
                    ~ /\ evalProc'[p].triggered[i].collectionId
                            = evalProc[q].triggered[j].collectionId
                      /\ evalProc'[p].triggered[i].type = evalProc[q].triggered[j].type
      ]_vars

\* the first call awaits with its three alerts; the second call was given
\* the same analytics and triggered nothing
C37_Witness ==
    /\ evalProc[1].pc # "idle"
    /\ Len(evalProc[1].triggered) = 3
    /\ evalProc[2].analytics = evalProc[1].analytics
    /\ evalProc[2].analytics # Null
    /\ evalProc[2].triggered = <<>>
    /\ evalCount = 2

----------------------------------------------------------------------------
(* Properties of the rules *)

\* the condition of a rule, over the fields that are present
StrictCondition(a, alertType) ==
    CASE alertType = "price_drop" ->
           /\ a.priceChange24h # Null
           /\ Val(a.priceChange24h) < -10
      [] alertType = "volume_spike" ->
           /\ a.volumeChange24h # Null
           /\ Val(a.volumeChange24h) > 50
      [] alertType = "listing_depletion" ->
           /\ a.listingCount # Null
           /\ a.previousListingCount # Null
           /\ Val(a.previousListingCount) > 0
           /\ (Val(a.previousListingCount) - Val(a.listingCount)) * 100
                 > 30 * Val(a.previousListingCount)

\* the alerts of a type among the triggered ones
OfType(triggered, alertType) ==
    { i \in 1..Len(triggered) : triggered[i].type = alertType }

\* the stored rows of an alert handed to create
RowsOfAlert(rows, alert) ==
    { k \in 1..Len(rows) : /\ SameKey(rows[k], alert)
                            /\ rows[k].triggeredAt = alert.triggeredAt }

\* C26: in a call for a collection, a rule whose cooldown is not active
\* triggers exactly one alert when its strict condition holds and none
\* otherwise (a value at the threshold does not fire); a call triggers at most
\* three alerts, and when it returns each of them is stored exactly once.
C26_RulesFireOnStrictBreach ==
    [][/\ \A p \in EvalProcs, a \in RuleInputs, drift \in {0, 1},
               collab \in { "ok", "webhookRejects" } :
            (EvalStart(p, a, drift, collab) /\ a.collectionId # Null) =>
               /\ Len(evalProc'[p].triggered) <= 3
               /\ \A t \in AlertTypes :
                     ~shouldThrottle(alertCooldowns, a.collectionId, t, now) =>
                        Cardinality(OfType(evalProc'[p].triggered, t))
                           = IF StrictCondition(a, t) THEN 1 ELSE 0
       /\ \A p \in EvalProcs :
            (evalProc'[p] # evalProc[p] /\ evalProc'[p].pc = "idle") =>
               \A i \in 1..Len(evalProc'[p].triggered) :
                  Cardinality(RowsOfAlert(alerts', evalProc'[p].triggered[i])) = 1
      ]_vars

\* one call has returned three alerts, all stored, for values one past the
\* thresholds, and another has returned none for values at the thresholds
C26_Witness ==
    /\ evalProc[1].pc = "idle"
    /\ evalProc[1].analytics # Null
    /\ evalProc[1].analytics[1].priceChange24h = Num(-11)
    /\ evalProc[1].analytics[1].volumeChange24h = Num(51)
    /\ evalProc[1].analytics[1].listingCount = Num(69)
    /\ Len(evalProc[1].triggered) = 3
    /\ Len(alerts) = 3
    /\ evalProc[2].pc = "idle"
    /\ evalProc[2].analytics # Null
    /\ evalProc[2].analytics[1].collectionId = <<"a">>
    /\ evalProc[2].analytics[1].priceChange24h = Num(-10)
    /\ evalProc[2].analytics[1].volumeChange24h = Num(50)
    /\ evalProc[2].analytics[1].listingCount = Num(70)
    /\ evalProc[2].triggered = <<>>

\* the fields a rule reads
FieldsOf(alertType) ==
    CASE alertType = "price_drop" -> { "priceChange24h" }
      [] alertType = "volume_spike" -> { "volumeChange24h" }
      [] alertType = "listing_depletion" -> { "listingCount", "previousListingCount" }

\* the cooldown entry of a key is what it was
CooldownKept(key) ==
    /\ key \in DOMAIN alertCooldowns' <=> key \in DOMAIN alertCooldowns
    /\ key \in DOMAIN alertCooldowns => alertCooldowns'[key] = alertCooldowns[key]

\* nothing is triggered, recorded, created or notified by the step, and call
\* p has returned an empty result
NoSignal(p) ==
    /\ evalProc'[p].pc = "idle"
    /\ evalProc'[p].triggered = <<>>
    /\ UNCHANGED <<alertCooldowns, alerts, alertId, createCalls, notifyCalls, delivery>>

\* C27: a rule one of whose fields is missing triggers no alert and leaves
\* its cooldown entry as it was; a call without a collection id or without
\* analytics returns no alert, records no cooldown and calls neither create
\* nor a notifier.
C27_MissingFieldIsNoSignal ==
    [][/\ \A p \in EvalProcs, a \in RuleInputs, drift \in {0, 1},
               collab \in { "ok", "webhookRejects" } :
            EvalStart(p, a, drift, collab) =>
               /\ \A t \in AlertTypes :
                     (\E f \in FieldsOf(t) : a[f] = Null) =>
                        /\ t \notin TypesOf(evalProc'[p].triggered)
                        /\ CooldownKept(getCooldownKey(a.collectionId, t))
               /\ a.collectionId = Null => NoSignal(p)
       /\ \A p \in EvalProcs : EvalMissing(p) => NoSignal(p)
      ]_vars

\* a call whose price change and listing count are missing has triggered the
\* volume spike alone and recorded that cooldown alone, and a call without a
\* collection id, its values past every threshold, has returned no alert
C27_Witness ==
    /\ evalProc[1].analytics # Null
    /\ evalProc[1].analytics[1].collectionId = <<"a">>
    /\ evalProc[1].analytics[1].priceChange24h = Null
    /\ evalProc[1].analytics[1].listingCount = Null
    /\ TypesOf(evalProc[1].triggered) = { "volume_spike" }
    /\ DOMAIN alertCooldowns = { getCooldownKey(<<"a">>, "volume_spike") }
    /\ evalProc[2].pc = "idle"
    /\ evalProc[2].analytics # Null
    /\ evalProc[2].analytics[1].collectionId = Null
    /\ evalProc[2].analytics[1].priceChange24h = Num(-11)
    /\ evalProc[2].triggered = <<>>
    /\ Len(createCalls) = 1

\* a call without analytics has returned, after a call that triggered alerts
C27_MissingAnalyticsReturned ==
    /\ evalProc[1].pc # "idle"
    /\ evalProc[1].triggered # <<>>
    /\ evalProc[2] = IdleProc
    /\ evalCount = 2

\* every stored alert keeps its place and the fields set at its creation,
\* and every alert but the one with the id is left as it was
CreationFieldsKept(id) ==
    /\ Len(alerts') = Len(alerts)
    /\ \A k \in 1..Len(alerts) :
          /\ alerts'[k].id = alerts[k].id
          /\ alerts'[k].collectionId = alerts[k].collectionId
          /\ alerts'[k].type = alerts[k].type
          /\ alerts'[k].severity = alerts[k].severity
          /\ alerts'[k].message = alerts[k].message
          /\ alerts'[k].triggeredAt = alerts[k].triggeredAt
          /\ alerts[k].id # id => alerts'[k] = alerts[k]

\* the alert with the id is stored, and after the step its flag is the given one
ResolvedBecomes(id, flag) ==
    \A k \in 1..Len(alerts) : alerts[k].id = id => alerts'[k].resolved = flag

\* no stored alert has the id
Unknown(id) == \A k \in 1..Len(alerts) : alerts[k].id # id

\* C32: PUT /:id and PUT /:id/resolve leave id, collectionId, type, severity,
\* message and triggeredAt of every alert unchanged; resolve sets resolved to
\* true, also on an alert that is resolved already; a request for an unknown
\* id gets null from the repository, which the routes answer with 404, and
\* changes no stored alert.
C32_OnlyResolvedChanges ==
    [][/\ \A id \in ApiRequests.ids, body \in ApiRequests.bodies :
            PutAlert(id, body) =>
               /\ CreationFieldsKept(id)
               /\ "resolved" \in DOMAIN body => ResolvedBecomes(id, body.resolved)
               /\ IF Unknown(id)
                  THEN alerts' = alerts /\ update(alerts, id, body, now).result = Null
                  ELSE update(alerts, id, body, now).result # Null
       /\ \A id \in ApiRequests.ids :
            PutResolve(id) =>
               /\ CreationFieldsKept(id)
               /\ ResolvedBecomes(id, TRUE)
               /\ IF Unknown(id)
                  THEN alerts' = alerts /\ markAsResolved(alerts, id, now).result = Null
                  ELSE markAsResolved(alerts, id, now).result # Null
      ]_vars

\* three alerts are stored; the second was resolved half an hour after its
\* creation and resolved again half an hour later, the others were not touched
C32_Witness ==
    /\ Len(alerts) = 3
    /\ alerts[2].resolved
    /\ "updatedAt" \in DOMAIN alerts[2]
    /\ alerts[2].updatedAt = now
    /\ now = StartTime + 60 * ONE_MINUTE_MS
    /\ alerts[2].triggeredAt = StartTime
    /\ alerts[2].type = "volume_spike"
    /\ ~alerts[1].resolved /\ "updatedAt" \notin DOMAIN alerts[1]
    /\ ~alerts[3].resolved /\ "updatedAt" \notin DOMAIN alerts[3]

----------------------------------------------------------------------------
(* Properties of intake and refresh *)

NoDuplicates(s) == \A i, j \in 1..Len(s) : i # j => s[i] # s[j]

\* the rows of the metrics store with a given key
RowsOfKey(rows, collectionId, window) ==
    { k \in 1..Len(rows) : rows[k].collectionId = collectionId /\ rows[k].window = window }

\* the stored row k is what a refresh at the row's own timestamp computes from
\* the events the store holds now
RowIsCurrent(rows, store, k) ==
    /\ getTime(rows[k].timestamp) # Null
    /\ \E i \in 1..Len(TIME_WINDOWS) :
          /\ TIME_WINDOWS[i].window = rows[k].window
          /\ rows[k] =
                Spread([id |-> rows[k].id, collectionId |-> rows[k].collectionId,
                        window |-> rows[k].window, timestamp |-> rows[k].timestamp],
                       windowMetrics(
                           getEntries(store.listingEvents, rows[k].collectionId),
                           getEntries(store.purchaseEvents, rows[k].collectionId),
                           TIME_WINDOWS[i], Val(getTime(rows[k].timestamp))))

\* the stored metrics of a collection reflect every event stored for it
Reflected(rows, store, collectionId) ==
    \A w \in WindowNames :
        \E k \in RowsOfKey(rows, collectionId, w) : RowIsCurrent(rows, store, k)

\* C2: intake is idempotent by event id: in every table (kind) and under every
\* collection, no two stored rows have the same id.
C2_AtMostOneRowPerId ==
    \A t \in TableNames :
        \A i \in 1..Len(dataStore[t]) :
            \A j, k \in 1..Len(dataStore[t][i].entries) :
                j # k => dataStore[t][i].entries[j].id # dataStore[t][i].entries[k].id

\* the step is a call of upsertMetrics that resolved, made by refresh p
Upserts(p) ==
    /\ refreshProc'[p] # refreshProc[p]
    /\ refreshProc'[p].pc = "upsert"
    /\ ~refreshProc'[p].rejected

UpsertKey(p) ==
    [collectionId |-> refreshProc'[p].collections[refreshProc'[p].ci],
     window |-> TIME_WINDOWS[refreshProc'[p].wi].window]

\* the metrics that refresh p passes to upsertMetrics in this step: those of
\* the arrays it took from the store when it began the collection
UpsertData(p) ==
    windowMetrics(
        deref(refreshProc'[p].listingEvents, dataStore.listingEvents, UpsertKey(p).collectionId),
        deref(refreshProc'[p].purchaseEvents, dataStore.purchaseEvents, UpsertKey(p).collectionId),
        TIME_WINDOWS[refreshProc'[p].wi], now)

\* every field of data is a field of row, with the same value
RowHolds(row, data) ==
    \A f \in DOMAIN data : f \in DOMAIN row /\ row[f] = data[f]

\* C4: the metrics store never holds two rows with the same (collectionId,
\* window); every step of ingest and refresh leaves each stored row at its
\* place with its id and its key, and an upsert of a key that has a row
\* rewrites that row with the data and the time of the call and leaves the
\* number of rows unchanged, while an upsert of a new key adds one row.
C4_OneRowPerKey ==
    /\ [](\A i, j \in 1..Len(analyticsMetrics) :
             i # j => \/ analyticsMetrics[i].collectionId # analyticsMetrics[j].collectionId
                      \/ analyticsMetrics[i].window # analyticsMetrics[j].window)
    /\ [][ /\ Len(analyticsMetrics') >= Len(analyticsMetrics)
           /\ \A i \in 1..Len(analyticsMetrics) :
                 /\ analyticsMetrics'[i].id = analyticsMetrics[i].id
                 /\ analyticsMetrics'[i].collectionId = analyticsMetrics[i].collectionId
                 /\ analyticsMetrics'[i].window = analyticsMetrics[i].window
           /\ \A p \in RefreshProcs :
                 Upserts(p) =>
                    IF RowsOfKey(analyticsMetrics, UpsertKey(p).collectionId,
                                 UpsertKey(p).window) # {}
                    THEN /\ Len(analyticsMetrics') = Len(analyticsMetrics)
                         /\ metricsId' = metricsId
                         /\ \A k \in RowsOfKey(analyticsMetrics, UpsertKey(p).collectionId,
                                               UpsertKey(p).window) :
                               /\ analyticsMetrics'[k].timestamp = toISOString(now)
                               /\ RowHolds(analyticsMetrics'[k], UpsertData(p))
                    ELSE Len(analyticsMetrics') = Len(analyticsMetrics) + 1
         ]_vars

\* a second refresh has rewritten the 1h row of a collection (it counts two
\* events) while its 6h row is still the one of the first refresh (one event)
C4_Witness ==
    \E p \in RefreshProcs :
        /\ refreshProc[p].pc = "upsert"
        /\ refreshProc[p].wi = 1
        /\ Len(analyticsMetrics) = 4
        /\ metricsId = 4
        /\ analyticsMetrics[1].id = "1"
        /\ analyticsMetrics[1].collectionId = analyticsMetrics[2].collectionId
        /\ analyticsMetrics[1].eventCount = 2
        /\ analyticsMetrics[2].eventCount = 1

\* C5: every ingest leaves its collection in the dirty set, which never holds
\* a collection twice; and when refreshAffectedMetrics completes, every
\* collection that was dirty at its start has exactly one row for each of the
\* four windows and the dirty set is empty.
C5_RefreshCoversDirtySet ==
    [][ /\ \A kind \in IngestKinds, c \in CollectionIds, payload \in EventPayloads :
              Ingest(kind, c, payload) =>
                 /\ c \in SeqRange(affectedCollections')
                 /\ NoDuplicates(affectedCollections')
        /\ \A p \in RefreshProcs :
              RefreshFinish(p) =>
                 /\ affectedCollections' = <<>>
                 /\ \A c \in SeqRange(refreshProc[p].collections) :
                       \A w \in WindowNames :
                          Cardinality(RowsOfKey(analyticsMetrics', c, w)) = 1
      ]_vars

\* C6: when a refresh cycle that met no failure ends, every collection whose
\* dirty mark it clears has stored metrics that reflect all the events stored
\* for it, those ingested while the cycle was running included.
C6_DirtyMarkNotLost ==
    [][ \A p \in RefreshProcs :
           (RefreshFinish(p) /\ refreshProc[p].collab = "ok") =>
              \A c \in SeqRange(affectedCollections) :
                 \/ c \in SeqRange(affectedCollections')
                 \/ Reflected(analyticsMetrics', dataStore', c)
      ]_vars

\* C11: when a refresh cycle completes, the evaluator has been run on every
\* collection the cycle refreshed (and only after the 24h row of the cycle was
\* upserted).
C11_EvaluatorRunsInRefreshCycle ==
    [][\A p \in RefreshProcs :
          RefreshFinish(p) =>
             \A i \in 1..Len(refreshProc[p].collections) :
                (\E k \in RowsOfKey(analyticsMetrics, refreshProc[p].collections[i], "24h") :
                    analyticsMetrics[k].timestamp = toISOString(now))
                => \E q \in EvalProcs :
                      /\ evalProc'[q].analytics # Null
                      /\ Val(evalProc'[q].analytics).collectionId
                            = refreshProc[p].collections[i]
      ]_vars

\* C23: an ingest adds one row to the event store and marks its collection
\* dirty, and leaves every metrics row, the metrics id counter and every
\* refresh in flight as they were.
C23_IngestComputesNoMetrics ==
    [][ ingestCount' = ingestCount + 1 =>
          /\ analyticsMetrics' = analyticsMetrics
          /\ metricsId' = metricsId
          /\ refreshProc' = refreshProc
          /\ \E t \in TableNames :
                /\ Len(allEntries(dataStore'[t])) = Len(allEntries(dataStore[t])) + 1
                /\ \A u \in TableNames \ {t} : dataStore'[u] = dataStore[u]
          /\ \E c \in CollectionIds :
                affectedCollections' = setAdd(affectedCollections, c)
      ]_vars

\* after a refresh has stored metrics, an ingest has made its collection dirty
\* again and the stored rows are those of the refresh
C23_Witness ==
    /\ analyticsMetrics # <<>>
    /\ affectedCollections # <<>>
    /\ \A p \in RefreshProcs : refreshProc[p].pc = "idle"
    /\ refreshCount >= 1
    /\ ingestCount = 2

\* C24: the row an upsert of a refresh stores holds, beside its id, its key
\* and the time of the call, exactly the metrics of the events that lie in the
\* window at that instant, whatever the metrics store held before and however
\* many refreshes ran before; a refresh over unchanged events at the same
\* instant therefore stores the row that is stored already.
C24_MetricsArePureInWindowEvents ==
    [][ \A p \in RefreshProcs :
          Upserts(p) =>
             LET key == UpsertKey(p)
                 old == RowsOfKey(analyticsMetrics, key.collectionId, key.window)
             IN  /\ \E k \in RowsOfKey(analyticsMetrics', key.collectionId, key.window) :
                       analyticsMetrics'[k] =
                          Spread([id |-> analyticsMetrics'[k].id,
                                  collectionId |-> key.collectionId,
                                  window |-> key.window,
                                  timestamp |-> toISOString(now)],
                                 UpsertData(p))
                 /\ \A k \in old :
                       (/\ analyticsMetrics[k].timestamp = toISOString(now)
                        /\ RowHolds(analyticsMetrics[k], UpsertData(p)))
                       => analyticsMetrics'[k] = analyticsMetrics[k]
      ]_vars

\* the row that the upsert of this step stored
UpsertedRow(p) ==
    analyticsMetrics'[CHOOSE k \in RowsOfKey(analyticsMetrics', UpsertKey(p).collectionId,
                                             UpsertKey(p).window) : TRUE]

\* the trade volume of the purchase events of the collection that lie in the
\* window of this step's upsert
PurchaseVolume(p) ==
    LET inWindow == filterEventsByWindow(
                        deref(refreshProc'[p].purchaseEvents, dataStore.purchaseEvents,
                              UpsertKey(p).collectionId),
                        TIME_WINDOWS[refreshProc'[p].wi].windowMs, now)
    IN  sum([i \in 1..Len(inWindow) |-> quantityOf(inWindow[i])])

\* the fields of the 24h row other than priceChange24h: volumeChange24h is the
\* trade volume of the purchase events of the window; the rows of the other
\* windows have neither field
VolumeMirrored(p) ==
    LET row == UpsertedRow(p)
    IN  IF UpsertKey(p).window = "24h"
        THEN /\ "volumeChange24h" \in DOMAIN row
             /\ row.volumeChange24h = PurchaseVolume(p)
        ELSE /\ "priceChange24h" \notin DOMAIN row
             /\ "volumeChange24h" \notin DOMAIN row

\* C28, as stated: in the 24h row of every refresh priceChange24h is a field
\* that equals the row's priceChange and volumeChange24h equals the trade
\* volume of the purchase events of the window; the 1h, 6h and 72h rows carry
\* neither field.
C28_24hFieldsMirror ==
    [][ \A p \in RefreshProcs :
          Upserts(p) =>
             /\ VolumeMirrored(p)
             /\ UpsertKey(p).window = "24h" =>
                   /\ "priceChange24h" \in DOMAIN UpsertedRow(p)
                   /\ UpsertedRow(p).priceChange24h = UpsertedRow(p).priceChange
      ]_vars

\* C28, amended: the 24h row has the field priceChange24h, equal to its
\* priceChange, exactly when priceChange is not null; the rest as stated.
C28_24hFieldsMirrorWhenPriced ==
    [][ \A p \in RefreshProcs :
          Upserts(p) =>
             /\ VolumeMirrored(p)
             /\ UpsertKey(p).window = "24h" =>
                   /\ "priceChange24h" \in DOMAIN UpsertedRow(p)
                         <=> UpsertedRow(p).priceChange # Null
                   /\ "priceChange24h" \in DOMAIN UpsertedRow(p)
                         => UpsertedRow(p).priceChange24h = UpsertedRow(p).priceChange
      ]_vars

\* a refresh has stored the four rows of a collection with a listing event
\* and a purchase event: the 24h row has a priceChange24h and the volume of
\* the purchase event alone, the other rows have neither field
C28_Witness ==
    /\ Len(analyticsMetrics) = Len(TIME_WINDOWS)
    /\ Len(allEntries(dataStore.listingEvents)) = 1
    /\ Len(allEntries(dataStore.purchaseEvents)) = 1
    /\ allEntries(dataStore.listingEvents)[1].id = "e1"
    /\ Get(allEntries(dataStore.purchaseEvents)[1], "quantity") = Null
    /\ \A k \in 1..Len(analyticsMetrics) :
          /\ analyticsMetrics[k].eventCount = 2
          /\ analyticsMetrics[k].tradeVolume = 2
          /\ analyticsMetrics[k].window = "24h" =>
                /\ Get(analyticsMetrics[k], "priceChange24h") = analyticsMetrics[k].priceChange
                /\ analyticsMetrics[k].priceChange # Null
                /\ analyticsMetrics[k].volumeChange24h = 0
          /\ analyticsMetrics[k].window # "24h" =>
                "volumeChange24h" \notin DOMAIN analyticsMetrics[k]

\* the 24h row of a collection without a priced event: priceChange is null
\* and the row has no priceChange24h
C28_NullPriceChangeHasNo24hField ==
    \E k \in 1..Len(analyticsMetrics) :
        /\ analyticsMetrics[k].window = "24h"
        /\ analyticsMetrics[k].priceChange = Null
        /\ "priceChange24h" \notin DOMAIN analyticsMetrics[k]

\* the events the refresh of this step holds for its collection, listing
\* events first
HeldEvents(p) ==
    deref(refreshProc'[p].listingEvents, dataStore.listingEvents, UpsertKey(p).collectionId)
      \o deref(refreshProc'[p].purchaseEvents, dataStore.purchaseEvents,
                UpsertKey(p).collectionId)

\* the positions of the events whose time lies between lo and hi, both included
Between(events, lo, hi) ==
    { i \in 1..Len(events) :
         /\ getTime(events[i].timestamp) # Null
         /\ lo <= Val(getTime(events[i].timestamp))
         /\ Val(getTime(events[i].timestamp)) <= hi }

RECURSIVE QuantityOver(_, _)
QuantityOver(events, positions) ==
    IF positions = {} THEN 0
    ELSE LET i == CHOOSE i \in positions : TRUE
         IN  quantityOf(events[i]) + QuantityOver(events, positions \ {i})

\* C29: the metrics a refresh stores for a window count exactly the events
\* with now - window <= timestamp <= now: an event at now - window or at now
\* is counted, an older or a later one is not.
C29_WindowIsClosedInterval ==
    [][ \A p \in RefreshProcs :
          Upserts(p) =>
             LET windowMs == TIME_WINDOWS[refreshProc'[p].wi].windowMs
                 selected == Between(HeldEvents(p), now - windowMs, now)
             IN  /\ UpsertedRow(p).eventCount = Cardinality(selected)
                 /\ UpsertedRow(p).tradeVolume = QuantityOver(HeldEvents(p), selected)
      ]_vars

\* the time of the stored event with an id, for collection a
TimeOf(table, id) ==
    { Val(getTime(e.timestamp)) :
         e \in { x \in SeqRange(allEntries(table)) : x.id = id /\ getTime(x.timestamp) # Null } }

\* the stored row of a window of collection a
RowOf(window) ==
    { analyticsMetrics[k] : k \in RowsOfKey(analyticsMetrics, <<"a">>, window) }

\* a refresh five hours after the start has stored its rows: the event of an
\* hour before the start lies at the start of the 6h window and is counted
\* there, and is older than the 1h window, which counts nothing
C29_Witness ==
    /\ now = StartTime + 5 * ONE_HOUR_MS
    /\ TimeOf(dataStore.listingEvents, "e3") = { now - 6 * ONE_HOUR_MS }
    /\ Len(allEntries(dataStore.listingEvents)) = 1
    /\ dataStore.purchaseEvents = <<>>
    /\ \E r \in RowOf("6h") : r.eventCount = 1 /\ r.tradeVolume = 4
                               /\ r.timestamp = toISOString(now)
    /\ \E r \in RowOf("1h") : r.eventCount = 0 /\ r.timestamp = toISOString(now)

\* a refresh at the start has stored its rows: the event stamped at now is
\* counted in the 1h window, the one stamped a millisecond later is not
C29_AtNowAndLater ==
    /\ now = StartTime
    /\ TimeOf(dataStore.listingEvents, "e1") = { now }
    /\ TimeOf(dataStore.purchaseEvents, "e2") = { now + 1 }
    /\ \E r \in RowOf("1h") : r.eventCount = 1 /\ r.tradeVolume = 1

\* the prices of the events at the given positions, in the order of the events
RECURSIVE PricesOf(_, _, _)
PricesOf(events, positions, i) ==
    IF i > Len(events) THEN <<>>
    ELSE IF i \in positions /\ Get(events[i], "price") # Null
    THEN << Val(events[i].price) >> \o PricesOf(events, positions, i + 1)
    ELSE PricesOf(events, positions, i + 1)

Largest(prices) == CHOOSE m \in SeqRange(prices) : \A x \in SeqRange(prices) : x <= m

\* C30: the priceChange a refresh stores for a window whose events are not
\* empty is (max(prices) - prices[0]) / prices[0] * 100 over the prices of the
\* events of the window that have one, and null when the first price is 0 or
\* when no event of the window has a price; it is never a division by zero.
C30_PriceChange ==
    [][ \A p \in RefreshProcs :
          Upserts(p) =>
             LET windowMs == TIME_WINDOWS[refreshProc'[p].wi].windowMs
                 selected == Between(HeldEvents(p), now - windowMs, now)
                 prices == PricesOf(HeldEvents(p), selected, 1)
                 row == UpsertedRow(p)
             IN  selected # {} =>
                    IF prices = <<>> \/ prices[1] = 0
                    THEN row.priceChange = Null
                    ELSE /\ row.priceChange # Null
                         /\ row.priceChange[2] > 0
                         /\ row.priceChange[1] * prices[1]
                               = (Largest(prices) - prices[1]) * 100 * row.priceChange[2]
      ]_vars

\* the prices stored for collection a, listing events first
StoredPrices ==
    PricesOf(allEntries(dataStore.listingEvents) \o allEntries(dataStore.purchaseEvents),
             1..(Len(allEntries(dataStore.listingEvents))
                   + Len(allEntries(dataStore.purchaseEvents))), 1)

\* the rows of a refresh over the prices 100 then 150 hold a priceChange of 50
C30_Witness ==
    /\ StoredPrices = << 100, 150 >>
    /\ Len(analyticsMetrics) = Len(TIME_WINDOWS)
    /\ \A k \in 1..Len(analyticsMetrics) :
          analyticsMetrics[k].eventCount = 2 /\ analyticsMetrics[k].priceChange = << 50, 1 >>

\* the collections of a refreshMetrics call whose four upserts resolve
Succeeding(proc) ==
    { ci \in 1..Len(proc.collections) :
         \A wi \in 1..Len(TIME_WINDOWS) : upsertResolves(proc.collab, ci, wi) }

\* C38: a failure while refreshing one collection is isolated: refreshMetrics
\* goes on with the next requested collection, resolves, and resolves with
\* the number of collections that succeeded in collectionsUpdated, each of
\* them with a row for every window; and when refreshAffectedMetrics returns
\* the dirty set is empty, the collection whose refresh failed included
C38_FailureIsIsolated ==
    [][ \A p \in RefreshProcs :
          LET proc == refreshProc[p]
          IN  /\ (proc.pc = "compute" /\ proc.rejected /\ refreshProc'[p] # proc) =>
                    IF proc.ci < Len(proc.collections)
                    THEN /\ refreshProc'[p].ci = proc.ci + 1
                         /\ refreshProc'[p].pc = "upsert"
                         /\ refreshProc'[p].wi = 1
                         /\ refreshProc'[p].collectionsUpdated = proc.collectionsUpdated
                    ELSE refreshProc'[p].pc = "refresh"
              /\ (proc.pc # "refresh" /\ refreshProc'[p].pc = "refresh") =>
                    /\ refreshProc'[p].collectionsUpdated = Cardinality(Succeeding(proc))
                    /\ \A ci \in Succeeding(proc) : \A w \in WindowNames :
                          RowsOfKey(analyticsMetrics', proc.collections[ci], w) # {}
              /\ (proc.pc = "refresh" /\ refreshProc'[p] # proc) =>
                    /\ refreshProc'[p].pc = "idle"
                    /\ affectedCollections' = <<>>
      ]_vars

\* one refresh of two dirty collections has returned: the upsert of the 6h
\* row of the first was rejected, which left it one row; the second has its
\* four rows; nothing is dirty
C38_Witness ==
    /\ ingestCount = 2
    /\ refreshCount = 1
    /\ refreshProc[1].pc = "idle"
    /\ affectedCollections = <<>>
    /\ Len(analyticsMetrics) = 1 + Len(TIME_WINDOWS)
    /\ \E c, d \in CollectionIds :
          /\ c # d
          /\ \A w \in WindowNames : RowsOfKey(analyticsMetrics, d, w) # {}
          /\ RowsOfKey(analyticsMetrics, c, "1h") # {}
          /\ RowsOfKey(analyticsMetrics, c, "6h") = {}

\* the positions of the priced events among the selected ones that no priced
\* selected event precedes in time
EarliestPriced(events, selected) ==
    LET priced == { i \in selected : Get(events[i], "price") # Null }
    IN  { i \in priced : \A j \in priced :
             Val(getTime(events[i].timestamp)) <= Val(getTime(events[j].timestamp)) }

\* C36: the first price of the priceChange a refresh stores for a window is
\* the price of the earliest priced event of the window, whatever the order
\* of intake and whether the events are listing or purchase events
C36_FirstPriceIsEarliest ==
    [][ \A p \in RefreshProcs :
          Upserts(p) =>
             LET windowMs == TIME_WINDOWS[refreshProc'[p].wi].windowMs
                 events == HeldEvents(p)
                 selected == Between(events, now - windowMs, now)
                 prices == PricesOf(events, selected, 1)
                 row == UpsertedRow(p)
             IN  \A i \in EarliestPriced(events, selected) :
                    Val(events[i].price) # 0 =>
                       /\ row.priceChange # Null
                       /\ row.priceChange
                             = Ratio((Largest(prices) - Val(events[i].price)) * 100,
                                     Val(events[i].price))
      ]_vars

\* the event of ten minutes ago was stored before the event of thirty
\* minutes ago: the rows hold a priceChange of 0, from 150 to 150
C36_LaterPriceFirst ==
    /\ StoredPrices = << 150, 100 >>
    /\ Len(analyticsMetrics) = Len(TIME_WINDOWS)
    /\ \A k \in 1..Len(analyticsMetrics) :
          analyticsMetrics[k].eventCount = 2 /\ analyticsMetrics[k].priceChange = << 0, 1 >>

\* the part of C36 that holds: when the refresh reads the price of thirty
\* minutes ago before the price of ten minutes ago, the row holds the
\* priceChange of the example, 50
C36_ChronologicalIntake ==
    [][ \A p \in RefreshProcs :
          (Upserts(p) /\ PricesOf(HeldEvents(p), 1..Len(HeldEvents(p)), 1) = << 100, 150 >>) =>
              UpsertedRow(p).priceChange = << 50, 1 >> ]_vars

C30_ZeroFirstPrice ==
    /\ StoredPrices = << 0, 150 >>
    /\ Len(analyticsMetrics) = Len(TIME_WINDOWS)
    /\ \A k \in 1..Len(analyticsMetrics) :
          analyticsMetrics[k].eventCount = 2 /\ analyticsMetrics[k].priceChange = Null

\* the rows of a refresh over two events without a price hold a priceChange
\* of null
C30_NoPrice ==
    /\ StoredPrices = <<>>
    /\ Len(analyticsMetrics) = Len(TIME_WINDOWS)
    /\ \A k \in 1..Len(analyticsMetrics) :
          analyticsMetrics[k].eventCount = 2 /\ analyticsMetrics[k].priceChange = Null

\* the k-th smallest of the prices
Ranked(prices, k) ==
    CHOOSE x \in SeqRange(prices) :
        /\ Cardinality({ i \in 1..Len(prices) : prices[i] < x }) < k
        /\ Cardinality({ i \in 1..Len(prices) : prices[i] <= x }) >= k

\* C31: the medianPrice a refresh stores is the middle one of the prices in
\* ascending order when their number is odd and the mean of the two middle
\* ones when it is even, in whatever order the events were stored.
C31_MedianOfSortedPrices ==
    [][ \A p \in RefreshProcs :
          Upserts(p) =>
             LET windowMs == TIME_WINDOWS[refreshProc'[p].wi].windowMs
                 selected == Between(HeldEvents(p), now - windowMs, now)
                 prices == PricesOf(HeldEvents(p), selected, 1)
                 n == Len(prices)
                 median == UpsertedRow(p).medianPrice
             IN  prices # <<>> =>
                    /\ median # Null
                    /\ median[2] > 0
                    /\ IF n % 2 = 1
                       THEN median[1] = Ranked(prices, (n + 1) \div 2) * median[2]
                       ELSE 2 * median[1] = (Ranked(prices, n \div 2)
                                              + Ranked(prices, n \div 2 + 1)) * median[2]
      ]_vars

\* the rows of a refresh over the prices 400, 100, 300, 200, stored in that
\* order, hold a median of 250
C31_Witness ==
    /\ StoredPrices = << 400, 100, 300, 200 >>
    /\ Len(analyticsMetrics) = Len(TIME_WINDOWS)
    /\ \A k \in 1..Len(analyticsMetrics) : analyticsMetrics[k].medianPrice = << 250, 1 >>

\* the rows of a refresh over the prices 300, 100, 200 hold a median of 200
C31_OddCount ==
    /\ StoredPrices = << 300, 100, 200 >>
    /\ Len(analyticsMetrics) = Len(TIME_WINDOWS)
    /\ \A k \in 1..Len(analyticsMetrics) : analyticsMetrics[k].medianPrice = << 200, 1 >>

\* a second refresh has rewritten the four rows of a collection whose listing
\* and purchase events are those of the first refresh (the ingest in between
\* stored a market snapshot)
C24_Witness ==
    \E p \in RefreshProcs :
        /\ refreshProc[p].pc = "upsert"
        /\ refreshProc[p].wi = Len(TIME_WINDOWS)
        /\ refreshCount = 2
        /\ ingestCount = 2
        /\ Len(allEntries(dataStore.marketSnapshots)) = 1
        /\ Len(analyticsMetrics) = Len(TIME_WINDOWS)
        /\ \A k \in 1..Len(analyticsMetrics) : analyticsMetrics[k].eventCount = 1

\* the step is the return of runHourlyRefreshJob
HourlyReturns == hourlyJob.pc = "ingest" /\ hourlyJob'.pc = "idle"

\* C25: the hourly job refreshes the metrics: when runHourlyRefreshJob returns,
\* every collection that was dirty when it started is no longer dirty and has,
\* for each of the four windows, a row computed from the events stored for it;
\* and a run that finds nothing dirty changes no stored state.
C25_HourlyJobRefreshesDirty ==
    [][ /\ HourlyReturns =>
              \A c \in SeqRange(hourlyJob.dirty) :
                  /\ c \notin SeqRange(affectedCollections')
                  /\ Reflected(analyticsMetrics', dataStore', c)
        /\ (hourlyJob' # hourlyJob /\ hourlyJob'.dirty = <<>>) =>
              UNCHANGED <<dataStore, affectedCollections, analyticsMetrics, metricsId,
                          collections>>
      ]_vars

\* the part of C25 that holds: no step of the hourly job changes a store or
\* the dirty set, whatever was dirty
C25_HourlyJobChangesNothing ==
    [][ hourlyJob' # hourlyJob =>
              UNCHANGED <<dataStore, affectedCollections, analyticsMetrics, metricsId,
                          collections, refreshProc>>
      ]_vars

\* the hourly job has returned success for a dirty collection that it left
\* dirty and without a metrics row
C25_StillDirtyAfterJob ==
    /\ hourlyJob.pc = "idle"
    /\ hourlyJob.result # Null
    /\ Val(hourlyJob.result).success
    /\ hourlyJob.dirty = << <<"a">> >>
    /\ affectedCollections = << <<"a">> >>
    /\ analyticsMetrics = <<>>

----------------------------------------------------------------------------
(* Properties of the retention sweep *)

SweptTables == { CleanupTasks[i].table : i \in 1..Len(CleanupTasks) }

Count(row, rows) == Cardinality({ k \in 1..Len(rows) : rows[k] = row })

\* cutoff = now - retentionHours, for the run with these locals
SweepCutoff(proc) == proc.nowMs - proc.retentionHours * ONE_HOUR_MS

\* the run that takes the step
SweepingProc == IF cleanupProc'.pc = "idle" THEN cleanupProc ELSE cleanupProc'

\* C3: a step of runCleanupJob removes no row whose timestamp is at or after
\* cutoff = now - retentionHours, in any of the four tables, so a row exactly at
\* the cutoff stays; and a delete batch over a table that holds a row older
\* than the cutoff (one millisecond older included) removes at least one row.
C3_SweepKeepsRowsFromCutoff ==
    [][ cleanupProc' # cleanupProc =>
          /\ \A t \in SweptTables :
                \A k \in 1..Len(TableRows(dataStore, analyticsMetrics, t)) :
                   LET row == TableRows(dataStore, analyticsMetrics, t)[k]
                   IN  (/\ getTime(row.timestamp) # Null
                        /\ Val(getTime(row.timestamp)) >= SweepCutoff(SweepingProc))
                       => Count(row, TableRows(dataStore', analyticsMetrics', t))
                             >= Count(row, TableRows(dataStore, analyticsMetrics, t))
          /\ (/\ cleanupProc'.pc = "batch"
              /\ \E k \in 1..Len(TableRows(dataStore, analyticsMetrics,
                                           CleanupTasks[cleanupProc'.task].table)) :
                    LET row == TableRows(dataStore, analyticsMetrics,
                                         CleanupTasks[cleanupProc'.task].table)[k]
                    IN  /\ getTime(row.timestamp) # Null
                        /\ Val(getTime(row.timestamp)) < SweepCutoff(cleanupProc'))
             => /\ cleanupProc'.removed >= 1
                /\ Len(TableRows(dataStore', analyticsMetrics',
                                 CleanupTasks[cleanupProc'.task].table))
                     = Len(TableRows(dataStore, analyticsMetrics,
                                     CleanupTasks[cleanupProc'.task].table))
                       - cleanupProc'.removed
      ]_vars

\* a batch of a sweep whose cutoff is the first clock value has removed a row
\* (the only older timestamp is one millisecond older) and the table still
\* holds a row stamped exactly at the cutoff
C3_Witness ==
    /\ cleanupProc.pc = "batch"
    /\ cleanupProc.removed >= 1
    /\ SweepCutoff(cleanupProc) = StartTime
    /\ \E k \in 1..Len(TableRows(dataStore, analyticsMetrics,
                                 CleanupTasks[cleanupProc.task].table)) :
          getTime(TableRows(dataStore, analyticsMetrics,
                            CleanupTasks[cleanupProc.task].table)[k].timestamp)
             = Num(StartTime)

Min(a, b) == IF a <= b THEN a ELSE b

\* the table of the task the run is at
SweptRows(store, metrics, proc) == TableRows(store, metrics, CleanupTasks[proc.task].table)

\* C16: every delete batch of a swept table removes at most batchSize rows,
\* namely the expired rows up to batchSize; the loop issues another batch
\* exactly after a full one and ends after one that removed fewer than
\* batchSize rows (with no expired row left by it), so a table's sweep that
\* deleted N rows took floor(N / batchSize) + 1 batches and records N as its
\* count.
C16_BatchesUntilShortBatch ==
    [][ /\ (cleanupProc' # cleanupProc /\ cleanupProc'.pc = "batch") =>
             LET proc == cleanupProc'
                 before == SweptRows(dataStore, analyticsMetrics, proc)
                 after == SweptRows(dataStore', analyticsMetrics', proc)
                 N == ExpiredRows(before, SweepCutoff(proc))
             IN  /\ proc.removed <= proc.batchSize
                 /\ proc.removed = Min(proc.batchSize, N)
                 /\ Len(after) = Len(before) - proc.removed
                 /\ ExpiredRows(after, SweepCutoff(proc)) = N - proc.removed
                 /\ proc.removed < proc.batchSize
                       => ExpiredRows(after, SweepCutoff(proc)) = 0
        /\ (cleanupProc' # cleanupProc /\ cleanupProc.pc = "batch" /\ cleanupProc'.pc = "batch") =>
             /\ cleanupProc.removed = cleanupProc.batchSize
             /\ cleanupProc'.iteration = cleanupProc.iteration + 1
             /\ cleanupProc'.totalDeleted = cleanupProc.iteration * cleanupProc.batchSize
        /\ (cleanupProc.pc = "batch" /\ cleanupProc'.pc = "table") =>
             /\ cleanupProc.removed < cleanupProc.batchSize
             /\ cleanupProc'.totalDeleted
                   = (cleanupProc.iteration - 1) * cleanupProc.batchSize + cleanupProc.removed
             /\ cleanupProc'.iteration
                   = (cleanupProc'.totalDeleted \div cleanupProc.batchSize) + 1
        /\ (cleanupProc.pc = "table" /\ cleanupProc' # cleanupProc) =>
             cleanupProc'.summary = Append(cleanupProc.summary, cleanupProc.totalDeleted)
      ]_vars

\* a table with two expired rows was swept with batchSize 1 in three batches
\* of 1, 1 and 0 rows
C16_Witness ==
    /\ cleanupProc.pc = "table"
    /\ cleanupProc.batchSize = 1
    /\ cleanupProc.iteration = 3
    /\ cleanupProc.totalDeleted = 2
    /\ cleanupProc.removed = 0

\* C17: the loop of a table ends: no table takes more than
\* MAX_BATCH_ITERATIONS batches, the loop goes on only after a full batch
\* below the cap and stops after a batch that was not full or was the
\* MAX_BATCH_ITERATIONS-th, and every run that has started returns, also over
\* delete functions that report batchSize rows at every call.
C17_SweepLoopTerminates ==
    /\ [](cleanupProc.iteration <= MAX_BATCH_ITERATIONS)
    /\ [][ /\ (cleanupProc' # cleanupProc /\ cleanupProc.pc = "batch"
                 /\ cleanupProc'.pc = "batch") =>
                /\ cleanupProc.removed >= cleanupProc.batchSize
                /\ cleanupProc.iteration < MAX_BATCH_ITERATIONS
           /\ (cleanupProc' # cleanupProc /\ cleanupProc.pc = "batch") =>
                ( (cleanupProc'.pc = "table")
                  <=> (\/ cleanupProc.removed < cleanupProc.batchSize
                       \/ cleanupProc.iteration = MAX_BATCH_ITERATIONS) )
         ]_vars
    /\ (cleanupProc.pc # "idle") ~> (cleanupProc.pc = "idle" /\ cleanupProc.outcome = "resolved")

\* a table's loop was stopped by the cap: its last batch was the
\* MAX_BATCH_ITERATIONS-th and was full
C17_Witness ==
    /\ cleanupProc.pc = "table"
    /\ cleanupProc.iteration = MAX_BATCH_ITERATIONS
    /\ cleanupProc.removed = cleanupProc.batchSize
    /\ cleanupProc.totalDeleted = MAX_BATCH_ITERATIONS * cleanupProc.batchSize

C19_FailingBatchAborts ==
    /\ [][ cleanupProc' # cleanupProc =>
             /\ cleanupProc'.pc = "throw" =>
                   /\ dataStore' = dataStore
                   /\ analyticsMetrics' = analyticsMetrics
                   /\ cleanupProc'.summary = cleanupProc.summary
             /\ cleanupProc.pc = "throw" =>
                   /\ cleanupProc'.pc = "idle"
                   /\ cleanupProc'.outcome = "rejected"
                   /\ cleanupProc'.summary = cleanupProc.summary
                   /\ cleanupProc'.task = cleanupProc.task
                   /\ dataStore' = dataStore
                   /\ analyticsMetrics' = analyticsMetrics
         ]_vars
    /\ [](cleanupProc.pc = "throw" => Len(cleanupProc.summary) = cleanupProc.task - 1)
    /\ [](cleanupProc.outcome = "rejected"
            => /\ cleanupProc.pc = "idle"
               /\ Len(cleanupProc.summary) = cleanupProc.task - 1
               /\ Len(cleanupProc.summary) < Len(CleanupTasks))

\* a run was rejected at the second batch of listing_events, after the first
\* batch had removed a row, and an expired purchase event is still stored
C19_Witness ==
    /\ cleanupProc.outcome = "rejected"
    /\ CleanupTasks[cleanupProc.task].name = "listing_events"
    /\ Len(cleanupProc.summary) = 1
    /\ ExpiredRows(allEntries(dataStore.listingEvents), cleanupProc.cutoffDate[2]) = 0
    /\ ExpiredRows(allEntries(dataStore.purchaseEvents), cleanupProc.cutoffDate[2]) >= 1

\* C21: once cancel() was called during a run of the scheduled sweep, the run
\* issues no further delete batch, for the table it is at or a later one.
C21_NoBatchAfterCancel ==
    [][ (cleanupSchedule.running /\ cleanupSchedule.stopped /\ cleanupProc' # cleanupProc)
           => cleanupProc'.pc # "batch"
      ]_vars

\* cancel() was called while a batch of the scheduled run was in progress
C21_CancelledMidSweep ==
    /\ cleanupSchedule.running
    /\ cleanupSchedule.stopped
    /\ cleanupProc.pc = "batch"

\* the run returns its summary in this step
SweepReturns ==
    /\ cleanupProc.pc = "table"
    /\ cleanupProc'.pc = "idle"
    /\ cleanupProc'.outcome = "resolved"

----------------------------------------------------------------------------
(* Properties of the notifiers *)

RECURSIVE TwoTo(_)
TwoTo(k) == IF k = 0 THEN 1 ELSE 2 * TwoTo(k - 1)

\* C33: the wait set before retry k of a delivery (k = 0 for the first) is
\* the initial backoff times 2^k, and the retry, the POST number k + 2 of the
\* delivery, begins only when the clock is that wait or more past the moment
\* the wait was set; a delivery retries only out of a wait.
C33_BackoffDoubles ==
    [][ \A p \in EvalProcs :
          /\ (delivery[p].pc = "posting" /\ delivery'[p].pc = "backoff") =>
                /\ delivery'[p].backoffMs = INITIAL_BACKOFF_MS * TwoTo(delivery[p].retries)
                /\ delivery'[p].timerSetAt = now
          /\ (delivery[p].pc = "backoff" /\ delivery'[p].pc # "backoff") =>
                /\ delivery'[p].pc = "posting"
                /\ delivery'[p].retries = delivery[p].retries + 1
                /\ delivery'[p].attempts = delivery[p].retries + 2
                /\ now' - delivery[p].timerSetAt
                      >= INITIAL_BACKOFF_MS * TwoTo(delivery[p].retries)
          /\ (delivery'[p].retries # delivery[p].retries /\ delivery'[p].retries # 0) =>
                delivery[p].pc = "backoff"
      ]_vars

\* one delivery is at its third retry, seven initial backoffs after its start
C33_Witness ==
    \E p \in EvalProcs :
        /\ delivery[p].pc = "posting"
        /\ delivery[p].retries = 3
        /\ delivery[p].backoffMs = 4 * INITIAL_BACKOFF_MS
        /\ delivery[p].timerSetAt = StartTime + 3 * INITIAL_BACKOFF_MS
        /\ now = StartTime + 7 * INITIAL_BACKOFF_MS
        /\ sendCount = 1

\* C12: for one alert the webhook issues at most MAX_RETRIES + 1 POST
\* requests; a request is issued only at the start of the delivery or after a
\* failed request and its backoff, never after a request that succeeded; the
\* delivery gives up exactly after MAX_RETRIES failed retries; and every
\* delivery that has a request in flight ends, sent or given up.
C12_WebhookAttemptsBounded ==
    /\ [](\A p \in EvalProcs :
             /\ delivery[p].attempts <= MAX_RETRIES + 1
             /\ delivery[p].pc # "idle" => delivery[p].attempts = delivery[p].retries + 1
             /\ delivery[p].pc = "failed" => delivery[p].retries = MAX_RETRIES)
    /\ [][\A p \in EvalProcs :
             /\ delivery'[p].attempts > delivery[p].attempts
                   => /\ delivery[p].pc \in { "idle", "backoff" }
                      /\ delivery'[p].attempts \in { 1, delivery[p].attempts + 1 }
             /\ delivery[p].pc = "sent" => delivery'[p].pc \in { "sent", "idle" }
         ]_vars
    /\ \A p \in EvalProcs :
          (delivery[p].pc = "posting") ~> (delivery[p].pc \in { "sent", "failed" })

\* one delivery has given up after MAX_RETRIES + 1 requests while another has
\* succeeded at its second request
C12_Witness ==
    \E p, q \in EvalProcs :
        /\ delivery[p].pc = "failed"
        /\ delivery[p].attempts = MAX_RETRIES + 1
        /\ delivery[q].pc = "sent"
        /\ delivery[q].attempts = 2

\* the step is evaluateAlerts call p going on after one of its awaits
Resumes(p) ==
    /\ evalProc[p].pc \in { "notifying", "failed" }
    /\ evalProc'[p] # evalProc[p]

\* C13: a rejected create and a rejected notifier (a webhook that has used up
\* its retries included) end neither the call nor its loop: after each await
\* evaluateAlerts goes on to persist the next triggered alert, and after the
\* last one it returns the whole list of triggered alerts.
C13_FailuresNotReraised ==
    [][\A p \in EvalProcs :
          Resumes(p) =>
             /\ evalProc'[p].triggered = evalProc[p].triggered
             /\ IF evalProc[p].idx < Len(evalProc[p].triggered)
                THEN /\ evalProc'[p].pc \in { "notify", "failed" }
                     /\ evalProc'[p].idx = evalProc[p].idx + 1
                     /\ createCalls' = Append(createCalls,
                                              evalProc[p].triggered[evalProc[p].idx + 1])
                ELSE evalProc'[p].pc = "idle"
      ]_vars

\* a call has returned its three triggered alerts although the webhook gave up
\* on each of them
C13_Witness ==
    \E p \in EvalProcs :
        /\ evalProc[p].pc = "idle"
        /\ Len(evalProc[p].triggered) = 3
        /\ \A k \in 1..3 : \E f \in notifyFailed :
              /\ f.collectionId = evalProc[p].triggered[k].collectionId
              /\ f.type = evalProc[p].triggered[k].type
              /\ f.triggeredAt = evalProc[p].triggered[k].triggeredAt

\* C14: with both channels configured, notifyAlert writes the email in the
\* call that starts the webhook, and nothing the webhook does afterwards (a
\* failed request, a backoff, giving up) changes that.
C14_EmailIndependentOfWebhook ==
    /\ [](\A p \in EvalProcs :
             (evalProc[p].pc = "notifying" /\ "email" \in channels)
                => delivery[p].email = "sent")
    /\ [][\A p \in EvalProcs :
             (delivery[p].pc \in { "posting", "backoff" } /\ evalProc[p].pc = "notifying")
                => /\ delivery'[p].email = delivery[p].email
                   /\ evalProc'[p] = evalProc[p]
         ]_vars

\* the webhook of an alert has given up and the email of the same alert is sent
C14_Witness ==
    \E p \in EvalProcs :
        /\ evalProc[p].pc = "notifying"
        /\ delivery[p].pc = "failed"
        /\ delivery[p].attempts = MAX_RETRIES + 1
        /\ delivery[p].email = "sent"

\* C15: dispatch is fire-and-forget: while the webhook of an alert waits in a
\* backoff, the evaluateAlerts call that handed the alert to notifyAlert can
\* go on (persist its next alert or return).
C15_DispatchOffEvaluationPath ==
    \A p \in EvalProcs :
        (evalProc[p].pc = "notifying" /\ delivery[p].pc = "backoff")
           => ENABLED EvalResume(p)

----------------------------------------------------------------------------
(* Properties of the batch ingestion *)

\* the records of the call: the positions of the awaited ingests
RecordOps(b) ==
    { pos \in { <<gi, oi>> : gi \in 1..Len(b.groups), oi \in 1..6 } :
         /\ pos[2] <= Len(groupOps(b.groups[pos[1]]))
         /\ groupOps(b.groups[pos[1]])[pos[2]].kind # "metadata" }

OpAt(b, pos) == groupOps(b.groups[pos[1]])[pos[2]]

Throwing(b) == { pos \in RecordOps(b) : callRejects(b.collab, OpAt(b, pos)) }

TableOf(store, kind) ==
    CASE kind = "market_snapshot" -> store.marketSnapshots
      [] kind = "listing_event"   -> store.listingEvents
      [] kind = "purchase_event"  -> store.purchaseEvents

\* the record at pos has a row in the table of its kind
Stored(b, pos) ==
    LET rows == getEntries(TableOf(dataStore, OpAt(b, pos).kind), b.groups[pos[1]].collectionId)
    IN  \E i \in 1..Len(rows) : Get(rows[i], "id") = Get(OpAt(b, pos).record, "id")

\* C20: when the ingest of some record throws, the call still resolves, every
\* other record of the batch is stored and counted in the totals, each failed
\* record appears exactly once in failures[], and success is true iff
\* failures[] is empty.
C20_OneBadRecordFailsAlone ==
    batchProc.result # Null =>
       LET b == batchProc
           m == Val(b.result).metrics
       IN  /\ \A pos \in RecordOps(b) \ Throwing(b) : Stored(b, pos)
           /\ m.totalSnapshots + m.totalListingEvents + m.totalPurchaseEvents
                 = Cardinality(RecordOps(b) \ Throwing(b))
           /\ Len(m.failures) = Cardinality(Throwing(b))
           /\ \A i \in 1..Len(m.failures) : m.failures[i].type # "collection"
           /\ Val(b.result).success <=> (m.failures = <<>>)

\* the claim on the calls where only records with an id are rejected
C20_HoldsForRecordsWithAnId ==
    (batchProc.result # Null /\ \A pos \in Throwing(batchProc) : OpAt(batchProc, pos).record # Null)
       => C20_OneBadRecordFailsAlone

C20_RejectedRecordWithAnId ==
    /\ batchProc.result # Null
    /\ Throwing(batchProc) # {}
    /\ \A pos \in Throwing(batchProc) : OpAt(batchProc, pos).record # Null

\* the ingest the call is awaiting was rejected by a throw of its store write
WriteThrew(b) == b.pc = "record" /\ storeWriteThrows(b.collab, CurrentOp(b))

\* C22: a step of ingestCollections that calls an ingest whose store write
\* throws leaves the event store and the dirty set as they were, and the call
\* rejects; no row is ever stored and no collection is ever marked dirty for a
\* payload without collectionId.
C22_RejectedIngestLeavesNoTrace ==
    /\ [][ (batchProc' # batchProc /\ WriteThrew(batchProc')) =>
              /\ dataStore' = dataStore
              /\ affectedCollections' = affectedCollections
              /\ batchProc'.rejected
         ]_vars
    /\ [](/\ \A t \in TableNames : keyIndex(dataStore[t], Null) = 0
          /\ \A i \in 1..Len(affectedCollections) : affectedCollections[i] # Null
          /\ \A i \in 1..Len(collections) : collections[i].id # Null)

\* a call with a payload without collectionId is awaiting an ingest whose
\* store write threw, after an earlier record of the call was stored
C22_Witness ==
    /\ WriteThrew(batchProc)
    /\ batchProc.rejected
    /\ \E i \in 1..Len(batchProc.payloads) :
          /\ batchProc.payloads[i].collectionId = Null
          /\ batchProc.payloads[i].listingEvents # <<>>
    /\ dataStore # EmptyDataStore

\* the calls of scheduleHourlyRefresh and of cancel, seen as steps
Scheduling == \E collab \in ScheduleCollaborators : ScheduleHourlyRefresh(collab)
Cancelling == \E w \in 1..MaxSchedules : CancelHourly(w)

\* C34: at most one hourly-refresh cron task lives at any time, and it is
\* the one the module holds; scheduleHourlyRefresh with a task scheduled
\* creates no task and returns the wrapper that is stored, the one the call
\* that scheduled the task returned; after cancel() no task lives; a later
\* scheduleHourlyRefresh that does not throw schedules a task that did not
\* exist before
C34_OneCronTask ==
    /\ [](/\ Cardinality(hourlyJob.tasks) <= 1
          /\ hourlyJob.tasks = (IF hourlyJob.scheduledTask = Null THEN {}
                                ELSE {Val(hourlyJob.scheduledTask)})
          /\ hourlyJob.scheduledTaskWrapper = hourlyJob.scheduledTask)
    /\ [][ /\ (Scheduling /\ hourlyJob.scheduledTask # Null) =>
                /\ hourlyJob'.tasks = hourlyJob.tasks
                /\ hourlyJob'.created = hourlyJob.created
                /\ hourlyJob'.returned = hourlyJob.scheduledTaskWrapper
                /\ Val(hourlyJob'.returned) \in hourlyJob.held
           /\ Cancelling => /\ hourlyJob'.tasks = {}
                            /\ hourlyJob'.scheduledTask = Null
           /\ (ScheduleHourlyRefresh("ok") /\ hourlyJob.scheduledTask = Null) =>
                /\ hourlyJob'.tasks = {hourlyJob.created + 1}
                /\ hourlyJob'.returned = Num(hourlyJob.created + 1)
                /\ Val(hourlyJob'.returned) \notin hourlyJob.held ]_vars

\* a task was scheduled and cancelled, a second one is scheduled and a
\* further call returned its wrapper
C34_Witness ==
    /\ hourlyJob.created = 2
    /\ hourlyJob.tasks = {2}
    /\ hourlyJob.held = {1, 2}
    /\ hourlyJob.returned = Num(2)
    /\ hourlyJob.runs = 2

====
